---- MODULE Spec2Model ----
(***************************************************************************)
(* bo-pi preflight gate: permission/policy decision resolver and the       *)
(* interactive approval controller.                                        *)
(*                                                                         *)
(* Strings are sequences of tokens: a token is one character ("l", "(",    *)
(* "*", " ") or an atomic word (a tool name such as "Bash", the prefix     *)
(* "args:", a JSON text).  Free texts that the program never inspects      *)
(* (policy texts, oracle reasons) are atomic strings.                      *)
(***************************************************************************)
EXTENDS Integers, Sequences, FiniteSets, TLC

VARIABLES
    wsFile,           \* .pi/preflight/settings.local.json of the workspace
    glFile,           \* ~/.pi/preflight/settings.json
    hasUI,            \* ctx.hasUI
    approvalMode,     \* config.approvalMode
    pc,               \* position of the tool_call handler / collectApprovals
    toolCall,         \* the tool call being handled
    permissions,      \* PermissionsState loaded by the tool_call handler
    loopPermissions,  \* PermissionsState loaded at the top of the approval loop
    scopedPermissions,\* PermissionsState loaded by applyCustomRuleToCurrentCall
    preflightResult,  \* last PreflightAttempt (its metadata is currentMetadata)
    decisions,        \* decisions[toolCall.id] of the initial resolution
    currentDecision,  \* collectApprovals: currentDecision
    currentMetadata,  \* collectApprovals: currentMetadata
    approvalDecision, \* collectApprovals: approvalDecision of this iteration
    customRuleInput,  \* requestApproval: customRuleInput, the text of the rule input
    dialog,           \* requestApproval: the other locals of the open approval dialog
    batch,            \* collectApprovals over a batch: its loop index and approvals
    store,            \* the last save on the settings file: what it returned and notified
    consistency,      \* collectApprovals: consistency of this iteration
    conflictChoice,   \* last answer of the conflict dialog: selection, conflictAction
    applied,          \* collectApprovals: applied (status and reason) of this iteration
    approvals,        \* approvals[toolCall.id]
    result,           \* value returned by the tool_call handler
    failureDecision,  \* last PreflightFailureDecision
    edits,            \* number of edits made to the settings by other writers
    handled,          \* number of tool calls handled so far
    blockedToolCalls, \* index.ts: blockedToolCalls, tool call id -> block reason
    toolResults       \* per tool call id, the result the host hands back for it

vars == << wsFile, glFile, hasUI, approvalMode, pc, toolCall, permissions,
           loopPermissions, scopedPermissions, preflightResult, decisions, currentDecision, currentMetadata,
           approvalDecision, consistency, conflictChoice, applied, approvals, result, failureDecision,
           edits, handled, blockedToolCalls, toolResults, customRuleInput, dialog, batch, store >>

(***************************************************************************)
(* Bounds of the model.                                                    *)
(***************************************************************************)
MaxRules == 2        \* permission entries placed in the two settings files
MaxEdits == 1        \* edits of the settings files by other writers
MaxCalls == 1        \* tool calls handled in one run

(***************************************************************************)
(* Token strings.                                                          *)
(***************************************************************************)
Undef == << "undefined" >>
NoValue == "undefined"

Lower(t) ==
    CASE t = "Bash" -> "bash"
      [] t = "MyTool" -> "mytool"
      [] OTHER -> t

RECURSIVE trimStart(_)
trimStart(s) ==
    IF s # << >> /\ Head(s) = " " THEN trimStart(Tail(s)) ELSE s

RECURSIVE trimEnd(_)
trimEnd(s) ==
    IF s # << >> /\ s[Len(s)] = " " THEN trimEnd(SubSeq(s, 1, Len(s) - 1)) ELSE s

trim(s) == trimEnd(trimStart(s))

\* 1-based position of the first t in s, 0 when there is none (JS: -1)
indexOf(s, t) ==
    IF \E i \in 1..Len(s) : s[i] = t
    THEN CHOOSE i \in 1..Len(s) : s[i] = t /\ \A j \in 1..(i - 1) : s[j] # t
    ELSE 0

endsWith(s, suffix) ==
    /\ Len(s) >= Len(suffix)
    /\ SubSeq(s, Len(s) - Len(suffix) + 1, Len(s)) = suffix

includes(list, x) == \E i \in 1..Len(list) : list[i] = x

(***************************************************************************)
(* permissions/matching                                                    *)
(***************************************************************************)
PATH_TOOLS == { << "read" >>, << "edit" >>, << "write" >> }

normalizeToolName(name) == [ i \in 1..Len(trim(name)) |-> Lower(trim(name)[i]) ]

isKnownTool(tool) == tool = << "bash" >> \/ tool \in PATH_TOOLS

parseToolPattern(value) ==
    LET trimmed == trim(value)
        openIndex == indexOf(trimmed, "(")
        tool == trim(SubSeq(trimmed, 1, openIndex - 1))
    IN  IF trimmed = << >> THEN [ok |-> FALSE, tool |-> << >>, specifier |-> << >>]
        ELSE IF openIndex = 0 \/ trimmed[Len(trimmed)] # ")"
             THEN [ok |-> TRUE, tool |-> trimmed, specifier |-> << >>]
        ELSE IF tool = << >> THEN [ok |-> FALSE, tool |-> << >>, specifier |-> << >>]
        ELSE [ok |-> TRUE, tool |-> tool,
              specifier |-> SubSeq(trimmed, openIndex + 1, Len(trimmed) - 1)]

\* undefined and the empty string are both << >>: the code only tests !specifier
normalizeSpecifier(specifier) ==
    IF trim(specifier) = << >> \/ trim(specifier) = << "*" >> THEN << >> ELSE trim(specifier)

\* JSON.parse of a JSON text token: the value it denotes, NoValue when it throws
JsonParse(text) ==
    CASE text = "{a:1}" -> "A1"
      [] text = "{b:2}" -> "B2"
      [] OTHER -> NoValue

startsWithBracket(text) == text \in { "{a:1}", "{b:2}", "{oops" }

parseArgsMatch(tool, specifier) ==
    LET trimmed == trim(specifier)
        candidate == IF trimmed # << >> /\ Head(trimmed) = "args:"
                     THEN trim(Tail(trimmed)) ELSE trimmed
    IN  IF specifier = << >> THEN NoValue
        ELSE IF isKnownTool(tool) THEN NoValue
        ELSE IF candidate = << >> THEN NoValue
        ELSE IF Len(candidate) # 1 \/ ~startsWithBracket(candidate[1]) THEN NoValue
        ELSE JsonParse(candidate[1])

NoRule == [valid |-> FALSE, kind |-> "none", raw |-> << >>, tool |-> << >>,
           specifier |-> << >>, source |-> "none", argsMatch |-> NoValue]

compilePermissionRule(raw, kind, source) ==
    LET parsed == parseToolPattern(raw)
        tool == normalizeToolName(parsed.tool)
        specifier == normalizeSpecifier(parsed.specifier)
        argsMatch == parseArgsMatch(tool, specifier)
    IN  IF ~parsed.ok THEN NoRule
        ELSE IF specifier # << >> /\ ~isKnownTool(tool) /\ argsMatch = NoValue THEN NoRule
        ELSE [valid |-> TRUE, kind |-> kind, raw |-> raw, tool |-> tool,
              specifier |-> specifier, source |-> source, argsMatch |-> argsMatch]

compilePolicyOverrideRule(pattern, source) ==
    compilePermissionRule(pattern, "override", source)

getStringArg(args, key) == args[key]

getBashCommand(args) ==
    IF getStringArg(args, "command") # Undef
    THEN getStringArg(args, "command") ELSE getStringArg(args, "cmd")

normalizeBashPattern(pattern) ==
    LET trimmed == trim(pattern)
    IN  IF endsWith(trimmed, << ":", "*" >>)
        THEN SubSeq(trimmed, 1, Len(trimmed) - 2) \o << " ", "*" >>
        ELSE trimmed

\* new RegExp(`^${escaped}$`).test(command): every token but "*" is literal,
\* "*" is ".*"
RECURSIVE wildcardTest(_, _)
wildcardTest(pattern, command) ==
    IF pattern = << >> THEN command = << >>
    ELSE IF Head(pattern) = "*"
         THEN \/ wildcardTest(Tail(pattern), command)
              \/ command # << >> /\ wildcardTest(pattern, Tail(command))
    ELSE /\ command # << >>
         /\ Head(command) = Head(pattern)
         /\ wildcardTest(Tail(pattern), Tail(command))

matchBashPattern(pattern, command) ==
    wildcardTest(normalizeBashPattern(pattern), command)

deepEqual(a, b) == a = b

matchArgs(rule, args) ==
    IF rule.specifier = << >> THEN TRUE
    ELSE IF rule.argsMatch = NoValue THEN FALSE
    ELSE deepEqual(rule.argsMatch, args.value)

\* The calls of this model are bash calls and calls of custom tools; the
\* read/edit/write branch (gitignore globs) is not exercised by them.
matchesToolRule(rule, call) ==
    LET toolName == normalizeToolName(call.name)
        command == getBashCommand(call.args)
    IN  IF toolName # rule.tool THEN FALSE
        ELSE IF rule.specifier = << >> THEN TRUE
        ELSE IF rule.tool = << "bash" >>
             THEN IF command # Undef /\ command # << >>
                  THEN matchBashPattern(rule.specifier, command) ELSE FALSE
        ELSE matchArgs(rule, call.args)

matchesPermissionRule(rule, call) == matchesToolRule(rule, call)

matchesPolicyOverride(rule, call) == matchesToolRule(rule, call)

matchesPolicyRule(rule, call) == matchesToolRule(rule, call)

\* An entry of a permission list is a string or, in documents written for
\* earlier versions, an object {rule, reason}; the object is kept as a token
\* sequence headed by ObjectTag.
ObjectTag == "{rule,reason}"

ObjectEntry(rule, reason) == << ObjectTag >> \o rule \o << reason >>

\* typeof item === "string"
isString(item) == item = << >> \/ Head(item) # ObjectTag

extractPermissionList(value) ==
    LET strings == SelectSeq(value, isString)
        trimmedAll == [ i \in 1..Len(strings) |-> trim(strings[i]) ]
    IN  SelectSeq(trimmedAll, LAMBDA item : item # << >>)

compileAll(list, kind, source) ==
    SelectSeq([ i \in 1..Len(list) |-> compilePermissionRule(list[i], kind, source) ],
              LAMBDA rule : rule.valid)

buildPermissionRules(settings, source) ==
    [ allow |-> compileAll(extractPermissionList(settings.permissions.allow), "allow", source),
      ask   |-> compileAll(extractPermissionList(settings.permissions.ask), "ask", source),
      deny  |-> compileAll(extractPermissionList(settings.permissions.deny), "deny", source) ]

buildPolicyOverrides(settings, source) ==
    compileAll(extractPermissionList(settings.preflight.policyOverrides), "override", source)

\* preflight.llmRules in the tool-scoped form: tool -> policy texts
ToolKeys == { << "bash" >>, << "mytool" >> }

toolPolicyRules(llmRules, tool, source) ==
    [ i \in 1..Len(llmRules[tool]) |->
        [tool |-> tool, specifier |-> << >>, argsMatch |-> NoValue,
         policy |-> llmRules[tool][i], raw |-> tool, source |-> source] ]

buildPolicyRules(settings, source) ==
    toolPolicyRules(settings.preflight.llmRules, << "bash" >>, source)
        \o toolPolicyRules(settings.preflight.llmRules, << "mytool" >>, source)

(***************************************************************************)
(* permissions/state                                                       *)
(***************************************************************************)
loadPermissionsState(workspaceSettings, globalSettings) ==
    LET workspaceRules == buildPermissionRules(workspaceSettings, "workspace")
        globalRules == buildPermissionRules(globalSettings, "global")
    IN  [ rules |-> [ allow |-> workspaceRules.allow \o globalRules.allow,
                      ask   |-> workspaceRules.ask \o globalRules.ask,
                      deny  |-> workspaceRules.deny \o globalRules.deny ],
          policyRules |-> buildPolicyRules(workspaceSettings, "workspace")
                              \o buildPolicyRules(globalSettings, "global"),
          policyOverrides |-> buildPolicyOverrides(workspaceSettings, "workspace")
                                  \o buildPolicyOverrides(globalSettings, "global") ]

(***************************************************************************)
(* permissions/decisions                                                   *)
(***************************************************************************)
NoReason == [text |-> "undefined", rule |-> << >>, detail |-> "undefined"]

NoPolicy == [decision |-> "undefined", reason |-> "undefined", rule |-> << >>]

\* the first rule of the list that matches, as the loop returns it
findMatchingRule(call, rules) ==
    IF \E i \in 1..Len(rules) : matchesPermissionRule(rules[i], call)
    THEN rules[CHOOSE i \in 1..Len(rules) :
                   /\ matchesPermissionRule(rules[i], call)
                   /\ \A j \in 1..(i - 1) : ~matchesPermissionRule(rules[j], call)]
    ELSE NoRule

\* a lookup that never finds an override
findMatchingPolicyOverrideNone(call, rules) == NoRule

findMatchingPolicyOverride(call, rules) ==
    IF \E i \in 1..Len(rules) : matchesPolicyOverride(rules[i], call)
    THEN rules[CHOOSE i \in 1..Len(rules) :
                   /\ matchesPolicyOverride(rules[i], call)
                   /\ \A j \in 1..(i - 1) : ~matchesPolicyOverride(rules[j], call)]
    ELSE NoRule

NoPolicyRule == [tool |-> << >>, specifier |-> << >>, argsMatch |-> NoValue,
                 policy |-> "undefined", raw |-> << >>, source |-> "none"]

findMatchingPolicyRule(call, rules) ==
    IF \E i \in 1..Len(rules) : matchesPolicyRule(rules[i], call)
    THEN rules[CHOOSE i \in 1..Len(rules) :
                   /\ matchesPolicyRule(rules[i], call)
                   /\ \A j \in 1..(i - 1) : ~matchesPolicyRule(rules[j], call)]
    ELSE NoPolicyRule

buildPermissionDenyReason(rule) ==
    [text |-> "Blocked by rule", rule |-> rule.raw, detail |-> "undefined"]

buildPolicyDenyReason(rule, reason) ==
    [text |-> "Blocked by policy rule", rule |-> rule.raw, detail |-> reason]

\* metadata?.destructive ?? true
NoMetadata == [present |-> FALSE, summary |-> "undefined", destructive |-> TRUE]

buildDefaultDecision(metadata, mode) ==
    IF mode = "off" THEN "allow"
    ELSE IF mode = "all" THEN "ask"
    ELSE IF mode = "destructive"
         THEN IF (IF metadata.present THEN metadata.destructive ELSE TRUE)
              THEN "ask" ELSE "allow"
    ELSE "ask"

\* resolveBaseDecision with the allow bucket looked at before the deny bucket
resolveBaseDecisionAllowFirst(call, metadata, mode, perms) ==
    LET denyRule == findMatchingRule(call, perms.rules.deny)
        askRule == findMatchingRule(call, perms.rules.ask)
        allowRule == findMatchingRule(call, perms.rules.allow)
    IN  IF allowRule.valid
        THEN [decision |-> "allow", rule |-> allowRule, reason |-> NoReason]
        ELSE IF askRule.valid
        THEN [decision |-> "ask", rule |-> askRule, reason |-> NoReason]
        ELSE IF denyRule.valid
        THEN [decision |-> "deny", rule |-> denyRule,
              reason |-> buildPermissionDenyReason(denyRule)]
        ELSE [decision |-> buildDefaultDecision(metadata, mode), rule |-> NoRule,
              reason |-> NoReason]

resolveBaseDecision(call, metadata, mode, perms) ==
    LET denyRule == findMatchingRule(call, perms.rules.deny)
        askRule == findMatchingRule(call, perms.rules.ask)
        allowRule == findMatchingRule(call, perms.rules.allow)
    IN  IF denyRule.valid
        THEN [decision |-> "deny", rule |-> denyRule,
              reason |-> buildPermissionDenyReason(denyRule)]
        ELSE IF askRule.valid
        THEN [decision |-> "ask", rule |-> askRule, reason |-> NoReason]
        ELSE IF allowRule.valid
        THEN [decision |-> "allow", rule |-> allowRule, reason |-> NoReason]
        ELSE [decision |-> buildDefaultDecision(metadata, mode), rule |-> NoRule,
              reason |-> NoReason]

\* applyPolicyDecision that lets the policy verdict replace an ask
applyPolicyDecisionLoosens(baseDecision, policyDecision) ==
    IF baseDecision = "deny" THEN "deny" ELSE policyDecision

applyPolicyDecision(baseDecision, policyDecision) ==
    IF baseDecision = "deny" THEN "deny"
    ELSE IF baseDecision = "ask"
         THEN IF policyDecision = "deny" THEN "deny" ELSE "ask"
    ELSE policyDecision

\* The results evaluatePolicyRule can give for one call.
PolicyAttempts ==
    { [status |-> "ok", decision |-> d, reason |-> "policy reason"] :
          d \in { "allow", "ask", "deny" } }
    \cup { [status |-> "error", decision |-> "undefined", reason |-> "Policy request failed."] }

\* resolveToolDecisions that asks the policy even after a deny rule matched
resolveToolDecisionPolicyOverDeny(call, metadata, ui, mode, perms, policyAttempt) ==
    LET baseDecision == resolveBaseDecision(call, metadata, mode, perms)
        policyRule == findMatchingPolicyRule(call, perms.policyRules)
    IN  IF policyRule # NoPolicyRule /\ policyAttempt.status = "ok"
        THEN [decision |-> applyPolicyDecision(baseDecision.decision, policyAttempt.decision),
              reason |-> baseDecision.reason,
              rule |-> baseDecision.rule,
              policy |-> [decision |-> policyAttempt.decision,
                          reason |-> policyAttempt.reason, rule |-> policyRule.raw]]
        ELSE [decision |-> baseDecision.decision, reason |-> baseDecision.reason,
              rule |-> baseDecision.rule, policy |-> NoPolicy]

\* resolveToolDecisions that keeps a deny of the policy when there is a UI
resolveToolDecisionKeepsPolicyDeny(call, metadata, ui, mode, perms, policyAttempt) ==
    LET baseDecision == resolveBaseDecision(call, metadata, mode, perms)
        overrideRule == findMatchingPolicyOverride(call, perms.policyOverrides)
        policyRule == findMatchingPolicyRule(call, perms.policyRules)
        evaluated == /\ baseDecision.decision # "deny"
                     /\ ~overrideRule.valid
                     /\ policyRule # NoPolicyRule
        nextDecision == applyPolicyDecision(baseDecision.decision, policyAttempt.decision)
    IN  IF ~evaluated
        THEN [decision |-> baseDecision.decision, reason |-> baseDecision.reason,
              rule |-> baseDecision.rule, policy |-> NoPolicy]
        ELSE IF policyAttempt.status = "ok"
        THEN [decision |-> nextDecision,
              reason |-> IF nextDecision = "deny" /\ baseDecision.reason = NoReason
                         THEN buildPolicyDenyReason(policyRule, policyAttempt.reason)
                         ELSE baseDecision.reason,
              rule |-> baseDecision.rule,
              policy |-> [decision |-> policyAttempt.decision,
                          reason |-> policyAttempt.reason, rule |-> policyRule.raw]]
        ELSE [decision |-> IF baseDecision.decision = "allow" THEN "ask"
                           ELSE baseDecision.decision,
              reason |-> baseDecision.reason,
              rule |-> baseDecision.rule, policy |-> NoPolicy]

\* One iteration of the loop of resolveToolDecisions: the ToolDecision of one
\* call.  policyAttempt is what evaluatePolicyRule answers if it is asked.
resolveToolDecision(call, metadata, ui, mode, perms, policyAttempt) ==
    LET baseDecision == resolveBaseDecision(call, metadata, mode, perms)
        overrideRule == findMatchingPolicyOverride(call, perms.policyOverrides)
        policyRule == findMatchingPolicyRule(call, perms.policyRules)
        evaluated == /\ baseDecision.decision # "deny"
                     /\ ~overrideRule.valid
                     /\ policyRule # NoPolicyRule
        policyDenied == policyAttempt.decision = "deny"
        nextDecision == IF policyDenied /\ ui THEN "ask"
                        ELSE applyPolicyDecision(baseDecision.decision, policyAttempt.decision)
    IN  IF ~evaluated
        THEN [decision |-> baseDecision.decision, reason |-> baseDecision.reason,
              rule |-> baseDecision.rule, policy |-> NoPolicy]
        ELSE IF policyAttempt.status = "ok"
        THEN [decision |-> nextDecision,
              reason |-> IF nextDecision = "deny" /\ baseDecision.reason = NoReason
                         THEN buildPolicyDenyReason(policyRule, policyAttempt.reason)
                         ELSE baseDecision.reason,
              rule |-> baseDecision.rule,
              policy |-> [decision |-> policyAttempt.decision,
                          reason |-> policyAttempt.reason, rule |-> policyRule.raw]]
        ELSE [decision |-> IF baseDecision.decision = "allow" THEN "ask"
                           ELSE baseDecision.decision,
              reason |-> baseDecision.reason,
              rule |-> baseDecision.rule, policy |-> NoPolicy]

(***************************************************************************)
(* permissions/persistence                                                 *)
(***************************************************************************)
\* A settings document.  preflight.llmRules is stored in one of two shapes:
\* the tool-scoped map (llmRules, one list per tool) or, in documents of
\* earlier versions, an array (llmRulesArray: strings and {pattern, policy}
\* objects); llmRulesArray is empty when the stored value is the map.
EmptySettings ==
    [ permissions |-> [allow |-> << >>, ask |-> << >>, deny |-> << >>],
      preflight |-> [policyOverrides |-> << >>,
                     llmRules |-> [t \in ToolKeys |-> << >>],
                     llmRulesArray |-> << >>] ]

\* JSON.stringify(sortKeys(args)) of the args value of a custom tool call
stableStringify(value) ==
    CASE value = "A1" -> "{a:1}"
      [] value = "B2" -> "{b:2}"
      [] OTHER -> NoValue

\* String.prototype.trim on a text kept whole: a policy text, the rule input
trimText(text) ==
    CASE text = " "         -> ""
      [] text = "Deny rm "  -> "Deny rm"
      [] text = "Allow ls " -> "Allow ls"
      [] text = "Allow LS " -> "Allow LS"
      [] text = "Deny ls "  -> "Deny ls"
      [] OTHER              -> text

formatRuleToolName(name) ==
    IF normalizeToolName(name) = << "bash" >> THEN << "Bash" >> ELSE name

buildRuleForToolCall(call) ==
    LET toolName == formatRuleToolName(call.name)
        toolKey == normalizeToolName(call.name)
        command == getBashCommand(call.args)
        argsString == stableStringify(call.args.value)
    IN  IF toolKey = << "bash" >>
        THEN IF command # Undef /\ command # << >>
             THEN toolName \o << "(" >> \o command \o << ")" >> ELSE Undef
        ELSE IF argsString = NoValue THEN Undef
        ELSE toolName \o << "(", "args:", argsString, ")" >>

normalizePermissionsRecord(value) ==
    [ allow |-> extractPermissionList(value.allow),
      ask   |-> extractPermissionList(value.ask),
      deny  |-> extractPermissionList(value.deny) ]

\* addRuleToPermissionsFile without the check for a rule that is already there
addRuleToPermissionsFileNoDedup(existing, kind, rule) ==
    LET normalized == normalizePermissionsRecord(existing.permissions)
        list == IF kind = "deny" THEN normalized.deny
                ELSE IF kind = "ask" THEN normalized.ask ELSE normalized.allow
    IN  [existing EXCEPT !.permissions =
             IF kind = "deny" THEN [normalized EXCEPT !.deny = << rule >> \o list]
             ELSE IF kind = "ask" THEN [normalized EXCEPT !.ask = << rule >> \o list]
             ELSE [normalized EXCEPT !.allow = << rule >> \o list]]

addRuleToPermissionsFile(existing, kind, rule) ==
    LET normalized == normalizePermissionsRecord(existing.permissions)
        list == IF kind = "deny" THEN normalized.deny
                ELSE IF kind = "ask" THEN normalized.ask ELSE normalized.allow
    IN  IF includes(list, rule) THEN existing
        ELSE [existing EXCEPT !.permissions =
                  IF kind = "deny" THEN [normalized EXCEPT !.deny = << rule >> \o list]
                  ELSE IF kind = "ask" THEN [normalized EXCEPT !.ask = << rule >> \o list]
                  ELSE [normalized EXCEPT !.allow = << rule >> \o list]]

RECURSIVE extractPolicies(_, _)
\* the loop of extractPoliciesForTool: trimmed, non-empty, each text once
extractPolicies(value, found) ==
    IF value = << >> THEN found
    ELSE IF trimText(Head(value)) # "" /\ ~includes(found, trimText(Head(value)))
    THEN extractPolicies(Tail(value), Append(found, trimText(Head(value))))
    ELSE extractPolicies(Tail(value), found)

extractPoliciesForTool(value) == extractPolicies(value, << >>)

normalizeToolScopedLlmRules(value) ==
    [ t \in ToolKeys |-> extractPoliciesForTool(value[t]) ]

appendPolicy(target, tool, policy) ==
    IF tool = << >> THEN target
    ELSE IF includes(target[tool], policy) THEN target
    ELSE [target EXCEPT ![tool] = Append(@, policy)]

RECURSIVE migrateLegacy(_, _, _)
\* the loop of migrateLegacyLlmRules.  An item is a string (kind "string") or
\* an object with a policy and a pattern; currentTool is << >> for undefined.
migrateLegacy(value, currentTool, found) ==
    IF value = << >> THEN found
    ELSE LET item == Head(value)
             policy == trimText(item.policy)
             parsed == parseToolPattern(item.pattern)
         IN  IF policy = "" THEN migrateLegacy(Tail(value), currentTool, found)
             ELSE IF item.kind = "string"
             THEN migrateLegacy(Tail(value), currentTool,
                                appendPolicy(found, currentTool, policy))
             ELSE IF trim(item.pattern) # << >>
             THEN IF ~parsed.ok THEN migrateLegacy(Tail(value), currentTool, found)
                  ELSE migrateLegacy(Tail(value), currentTool,
                                     appendPolicy(found, normalizeToolName(parsed.tool),
                                                  policy))
             ELSE migrateLegacy(Tail(value), currentTool,
                                appendPolicy(found, currentTool, policy))

migrateLegacyLlmRules(value, currentTool) ==
    migrateLegacy(value, currentTool, [t \in ToolKeys |-> << >>])

\* normalizeLlmRules on the stored value of the document
normalizeLlmRules(preflight, currentTool) ==
    IF preflight.llmRulesArray # << >>
    THEN migrateLegacyLlmRules(preflight.llmRulesArray, currentTool)
    ELSE normalizeToolScopedLlmRules(preflight.llmRules)

normalizePreflightRecord(preflight, currentTool) ==
    [ policyOverrides |-> extractPermissionList(preflight.policyOverrides),
      llmRules |-> normalizeLlmRules(preflight, currentTool),
      llmRulesArray |-> << >> ]

addPolicyOverrideToPermissionsFile(existing, rule) ==
    LET preflight == normalizePreflightRecord(existing.preflight, << >>)
        overrides == preflight.policyOverrides
    IN  IF includes(overrides, rule) THEN existing
        ELSE [existing EXCEPT !.preflight =
                  [preflight EXCEPT !.policyOverrides = << rule >> \o overrides]]

addPolicyRuleToPermissionsFile(existing, call, policy) ==
    LET tool == normalizeToolName(call.name)
        preflight == normalizePreflightRecord(existing.preflight, tool)
        toolRules == preflight.llmRules[tool]
    IN  IF tool = << >> THEN existing
        ELSE IF includes(toolRules, policy) THEN existing
        ELSE [existing EXCEPT !.preflight =
                  [preflight EXCEPT !.llmRules[tool] = << policy >> \o toolRules]]

\* an allow-and-persist that writes no rule
persistWorkspaceRuleSkipped(existing, call, decision) == existing

persistWorkspaceRule(existing, call, decision) ==
    IF decision # "allow" /\ decision # "deny" THEN existing
    ELSE IF buildRuleForToolCall(call) = Undef THEN existing
    ELSE addRuleToPermissionsFile(existing, decision, buildRuleForToolCall(call))

\* an override that is never written
persistPolicyOverrideSkipped(existing, call) == existing

persistPolicyOverride(existing, call) ==
    IF buildRuleForToolCall(call) = Undef THEN existing
    ELSE addPolicyOverrideToPermissionsFile(existing, buildRuleForToolCall(call))

persistPolicyRule(existing, call, policy) ==
    IF trimText(policy) = "" THEN existing
    ELSE addPolicyRuleToPermissionsFile(existing, call, trimText(policy))

(***************************************************************************)
(* permissions/matching: the policy entries a document loads as.           *)
(***************************************************************************)
Wildcard == << "*" >>

\* one item of a legacy llmRules array as the loader reads it: no entry
\* (tool << >>) if it has no policy text or an invalid pattern
legacyPolicyEntry(item) ==
    LET policy == trimText(item.policy)
        parsed == parseToolPattern(item.pattern)
    IN  IF policy = "" THEN [tool |-> << >>, policy |-> policy]
        ELSE IF item.kind = "string" THEN [tool |-> Wildcard, policy |-> policy]
        ELSE IF trim(item.pattern) # << >>
        THEN IF ~parsed.ok THEN [tool |-> << >>, policy |-> policy]
             ELSE [tool |-> normalizeToolName(parsed.tool), policy |-> policy]
        ELSE [tool |-> Wildcard, policy |-> policy]

extractLegacyPolicyEntries(value) ==
    SelectSeq([ i \in 1..Len(value) |-> legacyPolicyEntry(value[i]) ],
              LAMBDA entry : entry.tool # << >>)

\* the entries of one tool of the tool-scoped map: trimmed, non-empty texts
toolScopedEntries(value, tool) ==
    LET policies == SelectSeq([ i \in 1..Len(value[tool]) |-> trimText(value[tool][i]) ],
                              LAMBDA policy : policy # "")
    IN  [ i \in 1..Len(policies) |-> [tool |-> tool, policy |-> policies[i]] ]

extractToolScopedPolicyEntries(value) ==
    toolScopedEntries(value, << "bash" >>) \o toolScopedEntries(value, << "mytool" >>)

extractPolicyEntries(preflight) ==
    IF preflight.llmRulesArray # << >>
    THEN extractLegacyPolicyEntries(preflight.llmRulesArray)
    ELSE extractToolScopedPolicyEntries(preflight.llmRules)

\* the policy texts that apply to a tool, each once
getPolicyRulesForTool(toolName, rules) ==
    LET applicable == SelectSeq(rules, LAMBDA rule :
                          rule.tool = Wildcard \/ rule.tool = normalizeToolName(toolName))
    IN  extractPolicies([ i \in 1..Len(applicable) |-> applicable[i].policy ], << >>)

(***************************************************************************)
(* Inputs.                                                                 *)
(***************************************************************************)
BashLs == [id |-> "call-1", name |-> << "bash" >>,
           args |-> [command |-> << "l", "s" >>, cmd |-> Undef, value |-> "bash-args"]]

BashLsDash == [id |-> "call-1", name |-> << "Bash" >>,
               args |-> [command |-> Undef, cmd |-> << "l", "s", " ", "-" >>,
                         value |-> "bash-args"]]

MyToolA == [id |-> "call-1", name |-> << "MyTool" >>,
            args |-> [command |-> Undef, cmd |-> Undef, value |-> "A1"]]

Calls == { BashLs, BashLsDash, MyToolA }

\* bash calls whose command text ends in white space or holds a wildcard
BashLsSpace == [id |-> "call-1", name |-> << "bash" >>,
                args |-> [command |-> << "l", "s", " " >>, cmd |-> Undef,
                          value |-> "bash-args"]]

BashLsStar == [id |-> "call-1", name |-> << "bash" >>,
               args |-> [command |-> << "l", "s", " ", "*" >>, cmd |-> Undef,
                         value |-> "bash-args"]]

RuleBashLs == << "Bash", "(", "l", "s", ")" >>
RuleBashLsAny == << "Bash", "(", "l", "s", ":", "*", ")" >>
RuleBashAll == << " ", "bash", "(", "*", ")" >>
RuleMyToolA == << "MyTool", "(", "args:", "{a:1}", ")" >>

RulePool == { RuleBashLs, RuleBashLsAny, RuleBashAll, RuleMyToolA }

\* { "rule": "Bash(ls)", "reason": "Destructive command" }
DenyLsWithReason == ObjectEntry(RuleBashLs, "Destructive command")

EditedRules == { RuleBashAll }

Metadatas == { [present |-> TRUE, summary |-> "summary", destructive |-> b] : b \in BOOLEAN }

RuleTexts == { "Deny ls", "Ask before ls" }

PreflightErrors == { "Preflight request failed." }

\* What the consistency oracle does when it is asked: there is no model or
\* API key, the request throws, or it answers with a text.
OracleOutcomes ==
    { [model |-> FALSE, thrown |-> FALSE, text |-> "undefined"],
      [model |-> TRUE, thrown |-> TRUE, text |-> "undefined"] }
    \cup { [model |-> TRUE, thrown |-> FALSE, text |-> t] :
               t \in { "{conflict:true}", "{conflict:false}", "invalid response" } }

NoParsed == [conflict |-> FALSE, reason |-> << >>]

\* parseRuleConsistencyResponse: undefined (NoParsed) for a text that is not a
\* JSON object with a boolean conflict; a missing reason gets a default
parseRuleConsistencyResponse(text) ==
    CASE text = "{conflict:true}" ->
             [conflict |-> TRUE, reason |-> << "Potential conflict detected." >>]
      [] text = "{conflict:false}" ->
             [conflict |-> FALSE, reason |-> << "No conflict detected." >>]
      [] OTHER -> NoParsed

\* a failure of the oracle reported as a conflict
buildUnavailableResultConflict(reason) ==
    [conflict |-> TRUE, reason |-> << "Consistency check unavailable: ", reason >>]

buildUnavailableResult(reason) ==
    [conflict |-> FALSE, reason |-> << "Consistency check unavailable: ", reason >>]

evaluateRuleConsistency(outcome) ==
    IF ~outcome.model
    THEN buildUnavailableResult("No model or API key available for consistency check.")
    ELSE IF outcome.thrown
    THEN buildUnavailableResult("Rule consistency request failed.")
    ELSE IF parseRuleConsistencyResponse(outcome.text) = NoParsed
    THEN buildUnavailableResult("Rule consistency response was not valid JSON.")
    ELSE parseRuleConsistencyResponse(outcome.text)

ConsistencyResults == { evaluateRuleConsistency(outcome) : outcome \in OracleOutcomes }

(***************************************************************************)
(* Values of the handler's locals.                                         *)
(***************************************************************************)
\* no approval dialog has been built
NoDialog == [open |-> FALSE]

\* collectApprovals has not been entered with a batch
NoBatch == [calls |-> << >>, index |-> 0, approvals |-> << >>, open |-> {}]

\* nothing has been saved yet
NoStore == [op |-> "none", kind |-> "none", rule |-> << >>, saved |-> FALSE,
            failed |-> FALSE, thrown |-> FALSE, notices |-> << >>, written |-> FALSE]

\* the ids of the tool calls of one session
ToolCallIds == { "call-1", "call-2", "call-3" }

\* the empty Map: get(id) is undefined for every id
NoBlockedToolCalls == [id \in ToolCallIds |-> NoReason]

\* no tool call of the session has been seen yet
NoToolResult == [status |-> "none", blocked |-> FALSE, reason |-> NoReason,
                 rewritten |-> FALSE, content |-> "undefined", isError |-> FALSE]

NoToolResults == [id \in ToolCallIds |-> NoToolResult]

NoCall == [id |-> "none", name |-> << >>,
           args |-> [command |-> Undef, cmd |-> Undef, value |-> NoValue]]

NoPermissions ==
    [ rules |-> [allow |-> << >>, ask |-> << >>, deny |-> << >>],
      policyRules |-> << >>, policyOverrides |-> << >> ]

NoPreflight == [status |-> "none", reason |-> "undefined"]

NoDecision == [decision |-> "undefined", reason |-> NoReason, rule |-> NoRule,
               policy |-> NoPolicy]

NoApprovalDecision == [action |-> "undefined", rule |-> ""]

NoConsistency == [conflict |-> FALSE, reason |-> Undef]

NoConflictChoice == [selection |-> "none", action |-> "undefined"]

NoApplied == [status |-> "none", reason |-> NoReason]

NoApproval == [set |-> FALSE, allow |-> FALSE, reason |-> NoReason]

NoResult == [done |-> FALSE, block |-> FALSE, reason |-> NoReason]

NoFailureDecision == [action |-> "undefined", reason |-> NoReason]

Text(t) == [text |-> t, rule |-> << >>, detail |-> "undefined"]

TextWith(t, detail) == [text |-> t, rule |-> << >>, detail |-> detail]

Approval(allow, reason) == [set |-> TRUE, allow |-> allow, reason |-> reason]

\* a `??` that always takes its right-hand side
orElseFallbackOnly(reason, fallback) == Text(fallback)

\* reason ?? fallback
orElse(reason, fallback) == IF reason = NoReason THEN Text(fallback) ELSE reason

(***************************************************************************)
(* index: the tail of the tool_call handler, after collectApprovals has    *)
(* returned approvals (approval is approvals?.[toolCall.id]).              *)
(***************************************************************************)
\* the tail of the handler without its look at the approvals
handlerResultIgnoresApproval(approval, decision) ==
    IF decision.decision = "deny"
    THEN [done |-> TRUE, block |-> TRUE, reason |-> decision.reason]
    ELSE [done |-> TRUE, block |-> FALSE, reason |-> NoReason]

handlerResult(approval, decision) ==
    IF approval.set
    THEN IF ~approval.allow
         THEN [done |-> TRUE, block |-> TRUE,
               reason |-> orElse(approval.reason, "Blocked by user.")]
         ELSE [done |-> TRUE, block |-> FALSE, reason |-> NoReason]
    ELSE IF decision.decision = "deny"
    THEN [done |-> TRUE, block |-> TRUE, reason |-> orElse(decision.reason, "Blocked by policy.")]
    ELSE [done |-> TRUE, block |-> FALSE, reason |-> NoReason]

(***************************************************************************)
(* preflight/failure: handlePreflightFailure.  selection is what           *)
(* ctx.ui.select returned ("undefined" when the prompt was dismissed).     *)
(***************************************************************************)
FailureSelections ==
    { "undefined", "Retry preflight", "Allow tool call(s) without preflight",
      "Block tool call(s)" }

\* handlePreflightFailure that blocks where it should retry
handlePreflightFailureNoRetry(reason, ui, selection) ==
    IF ~ui
    THEN [action |-> "block", reason |-> TextWith("Preflight failed", reason)]
    ELSE IF selection = "undefined"
    THEN [action |-> "block",
          reason |-> TextWith("Preflight failed (no response from user).", reason)]
    ELSE IF selection = "Allow tool call(s) without preflight"
    THEN [action |-> "allow", reason |-> NoReason]
    ELSE [action |-> "block",
          reason |-> TextWith("Preflight failed (blocked by user).", reason)]

\* handlePreflightFailure that lets a dismissed prompt through
handlePreflightFailureAllowsDismissal(reason, ui, selection) ==
    IF ~ui
    THEN [action |-> "block", reason |-> TextWith("Preflight failed", reason)]
    ELSE IF selection = "Retry preflight"
    THEN [action |-> "retry", reason |-> NoReason]
    ELSE IF selection = "Block tool call(s)"
    THEN [action |-> "block",
          reason |-> TextWith("Preflight failed (blocked by user).", reason)]
    ELSE [action |-> "allow", reason |-> NoReason]

handlePreflightFailure(reason, ui, selection) ==
    IF ~ui
    THEN [action |-> "block", reason |-> TextWith("Preflight failed", reason)]
    ELSE IF selection = "undefined"
    THEN [action |-> "block",
          reason |-> TextWith("Preflight failed (no response from user).", reason)]
    ELSE IF selection = "Retry preflight"
    THEN [action |-> "retry", reason |-> NoReason]
    ELSE IF selection = "Allow tool call(s) without preflight"
    THEN [action |-> "allow", reason |-> NoReason]
    ELSE [action |-> "block",
          reason |-> TextWith("Preflight failed (blocked by user).", reason)]

(***************************************************************************)
(* approvals/ui: requestRuleConflictAction                                 *)
(***************************************************************************)
ConflictSelections == { "undefined", "Edit rule", "Save anyway", "Cancel" }

\* requestRuleConflictAction that saves when the dialog is dismissed
requestRuleConflictActionSavesByDefault(ui, selection) ==
    IF ~ui THEN "save-anyway"
    ELSE IF selection = "Edit rule" THEN "edit-rule"
    ELSE IF selection = "Save anyway" \/ selection = "undefined" THEN "save-anyway"
    ELSE "cancel"

requestRuleConflictAction(ui, selection) ==
    IF ~ui THEN "save-anyway"
    ELSE IF selection = "undefined" \/ selection = "Edit rule" THEN "edit-rule"
    ELSE IF selection = "Save anyway" THEN "save-anyway"
    ELSE "cancel"

\* approvals/ui: the outcomes of requestApproval other than a custom rule
\* (a dismissed dialog and a declined fallback confirmation are "deny").
ApprovalActions == { "allow", "allow-persist", "deny" }

ApprovalModes == { "off", "all", "destructive" }

(***************************************************************************)
(* Settings files the handler can find on disk.                            *)
(***************************************************************************)
WorkspaceFiles ==
    { EmptySettings,
      [EmptySettings EXCEPT !.permissions.ask = << RuleBashAll >>],
      [EmptySettings EXCEPT !.permissions.allow = << RuleMyToolA >>,
                            !.preflight.llmRules[<< "mytool" >>] = << "Ask before ls" >>],
      [EmptySettings EXCEPT !.permissions.deny = << RuleBashLs >>] }

GlobalFiles ==
    { EmptySettings,
      [EmptySettings EXCEPT !.preflight.llmRules[<< "bash" >>] = << "Deny ls" >>] }

(***************************************************************************)
(* The tool_call handler and collectApprovals, one action per await.       *)
(***************************************************************************)
Init ==
    /\ wsFile \in WorkspaceFiles
    /\ glFile \in GlobalFiles
    /\ hasUI \in BOOLEAN
    /\ approvalMode \in ApprovalModes
    /\ pc = "idle"
    /\ toolCall = NoCall
    /\ permissions = NoPermissions
    /\ loopPermissions = NoPermissions
    /\ scopedPermissions = NoPermissions
    /\ preflightResult = NoPreflight
    /\ decisions = NoDecision
    /\ currentDecision = NoDecision
    /\ currentMetadata = NoMetadata
    /\ approvalDecision = NoApprovalDecision
    /\ consistency = NoConsistency
    /\ conflictChoice = NoConflictChoice
    /\ applied = NoApplied
    /\ approvals = NoApproval
    /\ result = NoResult
    /\ failureDecision = NoFailureDecision
    /\ edits = 0
    /\ handled = 0
    /\ blockedToolCalls = NoBlockedToolCalls
    /\ toolResults = NoToolResults
    /\ customRuleInput = ""
    /\ dialog = NoDialog
    /\ batch = NoBatch
    /\ store = NoStore

Allowed == [done |-> TRUE, block |-> FALSE, reason |-> NoReason]

Blocked(reason) == [done |-> TRUE, block |-> TRUE, reason |-> reason]

\* the handler returns res; what it loaded goes out of scope
\* blockedToolCalls.set(toolCallId, reason)
recordBlockedToolCall(blocked, toolCallId, reason) ==
    [blocked EXCEPT ![toolCallId] = reason]

\* the handler returns res for the call toolCallId; a block is recorded first
recordIfBlocked(blocked, toolCallId, res) ==
    IF res.block THEN recordBlockedToolCall(blocked, toolCallId, res.reason) ELSE blocked

ReturnResult(res) ==
    /\ blockedToolCalls' = recordIfBlocked(blockedToolCalls, toolCall.id, res)
    /\ UNCHANGED toolResults
    /\ result' = res
    /\ pc' = "done"
    /\ handled' = handled + 1
    /\ permissions' = NoPermissions
    /\ loopPermissions' = NoPermissions
    /\ scopedPermissions' = NoPermissions
    /\ currentMetadata' = NoMetadata
    /\ customRuleInput' = ""

\* collectApprovals returns; approval is approvals?.[toolCall.id]
Return(approval, decision) ==
    /\ approvals' = approval
    /\ ReturnResult(handlerResult(approval, decision))

hasRules(perms) ==
    \/ Len(perms.rules.allow) > 0
    \/ Len(perms.rules.ask) > 0
    \/ Len(perms.rules.deny) > 0
    \/ Len(perms.policyRules) > 0

\* pi.on("tool_call") up to the first await of buildPreflightMetadata
ToolCallEvent(call) ==
    /\ UNCHANGED << dialog, batch, store >>
    /\ pc \in { "idle", "done" }
    /\ handled < MaxCalls
    /\ toolCall' = call
    /\ preflightResult' = NoPreflight
    /\ decisions' = NoDecision
    /\ currentDecision' = NoDecision
    /\ approvalDecision' = NoApprovalDecision
    /\ consistency' = NoConsistency
    /\ conflictChoice' = NoConflictChoice
    /\ applied' = NoApplied
    /\ approvals' = NoApproval
    /\ failureDecision' = NoFailureDecision
    /\ IF approvalMode = "off" /\ ~hasRules(loadPermissionsState(wsFile, glFile))
       THEN ReturnResult(Allowed)
       ELSE /\ permissions' = loadPermissionsState(wsFile, glFile)
            /\ result' = NoResult
            /\ pc' = "preflight"
            /\ UNCHANGED << handled, blockedToolCalls, toolResults, loopPermissions, scopedPermissions, currentMetadata,
                            customRuleInput >>
    /\ UNCHANGED << wsFile, glFile, hasUI, approvalMode, edits >>

\* buildPreflightMetadata answers with an error: handlePreflightFailure
PreflightFails(reason) ==
    /\ UNCHANGED << dialog, batch, store >>
    /\ pc = "preflight"
    /\ preflightResult' = [status |-> "error", reason |-> reason]
    /\ IF ~hasUI
       THEN /\ failureDecision' = handlePreflightFailure(reason, hasUI, "undefined")
            /\ ReturnResult(Blocked(failureDecision'.reason))
       ELSE /\ pc' = "failure-prompt"
            /\ UNCHANGED << failureDecision, result, handled, blockedToolCalls, toolResults, permissions,
                            loopPermissions, scopedPermissions, currentMetadata,
                            customRuleInput >>
    /\ UNCHANGED << applied, wsFile, glFile, hasUI, approvalMode, toolCall, decisions,
                    currentDecision, approvalDecision, consistency, conflictChoice,
                    approvals, edits >>

\* the user answers (or dismisses) the preflight failure prompt
FailureSelect(selection) ==
    /\ UNCHANGED << dialog, batch, store >>
    /\ pc = "failure-prompt"
    /\ failureDecision' = handlePreflightFailure(preflightResult.reason, hasUI, selection)
    /\ IF failureDecision'.action = "retry"
       THEN /\ pc' = "preflight"
            /\ UNCHANGED << result, handled, blockedToolCalls, toolResults, permissions, loopPermissions,
                            scopedPermissions, currentMetadata, customRuleInput >>
       ELSE IF failureDecision'.action = "allow"
       THEN ReturnResult(Allowed)
       ELSE ReturnResult(Blocked(failureDecision'.reason))
    /\ UNCHANGED << applied, wsFile, glFile, hasUI, approvalMode, toolCall, preflightResult,
                    decisions, currentDecision, approvalDecision, consistency,
                    conflictChoice, approvals, edits >>

\* buildPreflightMetadata answers with metadata: the retry loop ends (and its
\* decision with it), resolveToolDecisions, then collectApprovals up to its
\* first requestApproval
PreflightSucceeds(metadata, policyAttempt) ==
    /\ UNCHANGED << dialog, batch, store >>
    /\ pc = "preflight"
    /\ preflightResult' = [status |-> "ok", reason |-> "undefined"]
    /\ decisions' = resolveToolDecision(toolCall, metadata, hasUI, approvalMode,
                                        permissions, policyAttempt)
    /\ IF decisions'.decision = "deny"
       THEN /\ Return(Approval(FALSE, orElse(decisions'.reason, "Blocked by policy")),
                      decisions')
            /\ UNCHANGED currentDecision
       ELSE IF decisions'.decision = "allow"
       THEN /\ Return(NoApproval, decisions')
            /\ UNCHANGED currentDecision
       ELSE IF ~hasUI
       THEN /\ Return(Approval(FALSE, Text("Approval required but no UI available.")),
                      decisions')
            /\ UNCHANGED currentDecision
       ELSE /\ currentDecision' = decisions'
            /\ currentMetadata' = metadata
            /\ loopPermissions' = loadPermissionsState(wsFile, glFile)
            /\ customRuleInput' = ""
            /\ pc' = "approval-dialog"
            /\ UNCHANGED << approvals, result, handled, blockedToolCalls, toolResults, permissions, scopedPermissions >>
    /\ failureDecision' = NoFailureDecision
    /\ UNCHANGED << applied, wsFile, glFile, hasUI, approvalMode, toolCall, approvalDecision,
                    consistency, conflictChoice, edits >>

\* an approval dialog whose every answer, deny and dismissal too, allows
ApprovalChoiceAlwaysAllows(action) ==
    /\ UNCHANGED << dialog, batch, store >>
    /\ pc = "approval-dialog"
    /\ approvalDecision' = [action |-> action, rule |-> ""]
    /\ wsFile' = IF action = "allow-persist"
                 THEN persistWorkspaceRule(wsFile, toolCall, "allow") ELSE wsFile
    /\ Return(Approval(TRUE, NoReason), decisions)
    /\ UNCHANGED << applied, glFile, hasUI, approvalMode, toolCall, preflightResult, decisions,
                    currentDecision, consistency, failureDecision, edits >>
    /\ conflictChoice' = NoConflictChoice

\* requestApproval resolves with allow, allow-persist or deny
ApprovalChoice(action) ==
    /\ UNCHANGED << dialog, batch, store >>
    /\ pc = "approval-dialog"
    /\ approvalDecision' = [action |-> action, rule |-> ""]
    /\ wsFile' = IF action = "allow-persist"
                 THEN IF currentDecision.policy.decision = "deny"
                      THEN persistPolicyOverride(
                               persistWorkspaceRule(wsFile, toolCall, "allow"), toolCall)
                      ELSE persistWorkspaceRule(wsFile, toolCall, "allow")
                 ELSE wsFile
    /\ IF action = "deny"
       THEN Return(Approval(FALSE, Text("Blocked by user")), decisions)
       ELSE Return(Approval(TRUE, NoReason), decisions)
    /\ UNCHANGED << applied, glFile, hasUI, approvalMode, toolCall, preflightResult, decisions,
                    currentDecision, consistency, failureDecision, edits >>
    /\ conflictChoice' = NoConflictChoice

\* requestApproval resolves with a custom rule: evaluateRuleConsistency starts
CustomRule(rule) ==
    /\ UNCHANGED << dialog, batch, store >>
    /\ pc = "approval-dialog"
    /\ customRuleInput' = rule
    /\ approvalDecision' = [action |-> "custom-rule", rule |-> customRuleInput']
    /\ conflictChoice' = NoConflictChoice
    /\ pc' = "consistency-check"
    /\ UNCHANGED << applied, wsFile, glFile, hasUI, approvalMode, toolCall, permissions,
                    loopPermissions, scopedPermissions, preflightResult, decisions,
                    currentDecision, currentMetadata, consistency,
                    approvals, result, failureDecision, edits, handled, blockedToolCalls, toolResults >>

\* a re-classification on the permissions loaded before the save
PersistAndReclassifyStale ==
    /\ wsFile' = persistPolicyRule(wsFile, toolCall, approvalDecision.rule)
    /\ scopedPermissions' = loopPermissions
    /\ pc' = "reclassify"
    /\ UNCHANGED << approvalDecision, loopPermissions, currentDecision, customRuleInput,
                    currentMetadata, applied, approvals, result, handled, blockedToolCalls, toolResults, permissions >>

\* persistPolicyRule, then applyCustomRuleToCurrentCall up to its await of
\* buildPreflightMetadata
PersistAndReclassify ==
    /\ wsFile' = persistPolicyRule(wsFile, toolCall, approvalDecision.rule)
    /\ scopedPermissions' = loadPermissionsState(wsFile', glFile)
    /\ pc' = "reclassify"
    /\ UNCHANGED << approvalDecision, loopPermissions, currentDecision, customRuleInput,
                    currentMetadata, applied, approvals, result, handled, blockedToolCalls, toolResults, permissions >>

\* a loop that goes round with the rule of the last iteration instead of
\* opening the approval dialog again
NextIterationSkipsDialog ==
    /\ loopPermissions' = loadPermissionsState(wsFile, glFile)
    /\ scopedPermissions' = NoPermissions
    /\ approvalDecision' = approvalDecision
    /\ consistency' = NoConsistency
    /\ applied' = NoApplied
    /\ customRuleInput' = ""
    /\ pc' = "consistency-check"
    /\ UNCHANGED << wsFile, approvals, result, handled, blockedToolCalls, toolResults, permissions >>

\* a loop that ends with an allow where it should open the dialog again
NextIterationAllows ==
    /\ loopPermissions' = NoPermissions
    /\ scopedPermissions' = NoPermissions
    /\ approvalDecision' = approvalDecision
    /\ consistency' = consistency
    /\ applied' = [status |-> "ok", reason |-> NoReason]
    /\ approvals' = Approval(TRUE, NoReason)
    /\ result' = Allowed
    /\ pc' = "done"
    /\ handled' = handled + 1
    /\ customRuleInput' = ""
    /\ UNCHANGED << wsFile, permissions, blockedToolCalls, toolResults >>

\* back to the top of the loop (`continue`, or the end of the loop body) and
\* on to the next requestApproval
NextIteration ==
    /\ loopPermissions' = loadPermissionsState(wsFile, glFile)
    /\ scopedPermissions' = NoPermissions
    /\ approvalDecision' = NoApprovalDecision
    /\ consistency' = NoConsistency
    /\ applied' = NoApplied
    /\ customRuleInput' = ""
    /\ pc' = "approval-dialog"
    /\ UNCHANGED << wsFile, approvals, result, handled, blockedToolCalls, toolResults, permissions >>

\* evaluateRuleConsistency answers; without a UI requestRuleConflictAction
\* answers at once
ConsistencyReturns(check) ==
    /\ UNCHANGED << dialog, batch, store >>
    /\ pc = "consistency-check"
    /\ consistency' = check
    /\ IF check.conflict /\ hasUI
       THEN /\ pc' = "conflict-dialog"
            /\ UNCHANGED << wsFile, scopedPermissions, conflictChoice, approvalDecision, applied,
                            loopPermissions, currentDecision, currentMetadata,
                            approvals, result, handled, blockedToolCalls, toolResults, permissions, customRuleInput >>
       ELSE /\ conflictChoice' =
                   IF check.conflict
                   THEN [selection |-> "none",
                         action |-> requestRuleConflictAction(hasUI, "undefined")]
                   ELSE conflictChoice
            /\ PersistAndReclassify
    /\ UNCHANGED << glFile, hasUI, approvalMode, toolCall, preflightResult, decisions,
                    failureDecision, edits >>

\* the user answers (or dismisses) the conflict dialog
ConflictSelect(selection) ==
    /\ UNCHANGED << dialog, batch, store >>
    /\ pc = "conflict-dialog"
    /\ LET conflictAction == requestRuleConflictAction(hasUI, selection)
       IN  IF conflictAction = "edit-rule"
           THEN /\ conflictChoice' = [selection |-> selection, action |-> conflictAction]
                /\ NextIteration
                /\ UNCHANGED << currentDecision, currentMetadata >>
           ELSE IF conflictAction = "cancel"
           THEN /\ conflictChoice' = [selection |-> selection, action |-> conflictAction]
                /\ Return(Approval(FALSE, Text("Blocked by user")), decisions)
                /\ UNCHANGED << wsFile, approvalDecision, consistency, currentDecision,
                                applied >>
           ELSE /\ conflictChoice' = [selection |-> selection, action |-> conflictAction]
                /\ PersistAndReclassify
                /\ UNCHANGED consistency
    /\ UNCHANGED << glFile, hasUI, approvalMode, toolCall, preflightResult, decisions,
                    failureDecision, edits >>

\* applyCustomRuleToCurrentCall: buildPreflightMetadata answers with an error
ReclassifyFails(reason) ==
    /\ UNCHANGED << dialog, batch, store >>
    /\ pc = "reclassify"
    /\ applied' = [status |-> "error",
                   reason |-> TextWith("Failed to validate custom rule", reason)]
    /\ Return(Approval(FALSE, applied'.reason), decisions)
    /\ UNCHANGED << wsFile, glFile, hasUI, approvalMode, toolCall, preflightResult,
                    decisions, currentDecision, approvalDecision, consistency,
                    conflictChoice, failureDecision, edits >>

\* applyCustomRuleToCurrentCall: buildPreflightMetadata answers with metadata,
\* resolveToolDecisions runs on the permissions loaded after the save
ReclassifySucceeds(metadata, policyAttempt) ==
    /\ UNCHANGED << dialog, batch, store >>
    /\ pc = "reclassify"
    /\ currentDecision' = resolveToolDecision(toolCall, metadata, hasUI, approvalMode,
                                              scopedPermissions, policyAttempt)
    /\ IF currentDecision'.decision = "allow"
       THEN /\ applied' = [status |-> "ok", reason |-> NoReason]
            /\ Return(Approval(TRUE, NoReason), decisions)
            /\ UNCHANGED << wsFile, approvalDecision, consistency, conflictChoice >>
       ELSE IF currentDecision'.decision = "deny"
       THEN /\ applied' = [status |-> "ok", reason |-> NoReason]
            /\ Return(Approval(FALSE, orElse(currentDecision'.reason,
                                             "Blocked by custom rule")), decisions)
            /\ UNCHANGED << wsFile, approvalDecision, consistency, conflictChoice >>
       ELSE /\ currentMetadata' = metadata
            /\ conflictChoice' = NoConflictChoice
            /\ NextIteration
    /\ UNCHANGED << glFile, hasUI, approvalMode, toolCall, preflightResult, decisions,
                    failureDecision, edits >>

\* Another writer (an editor, another session) adds a deny rule to the global
\* settings file while a dialog is open; every loadPermissionsState reads the
\* file afresh.
ExternalEdit(rule) ==
    /\ UNCHANGED << dialog, batch, store >>
    /\ edits < MaxEdits
    /\ pc \in { "approval-dialog", "conflict-dialog" }
    /\ glFile' = addRuleToPermissionsFile(glFile, "deny", rule)
    /\ glFile' # glFile
    /\ edits' = edits + 1
    /\ UNCHANGED << applied, wsFile, hasUI, approvalMode, pc, toolCall, permissions,
                    loopPermissions, scopedPermissions, preflightResult, decisions,
                    currentDecision, currentMetadata, approvalDecision, consistency,
                    conflictChoice, approvals, result, failureDecision, handled, blockedToolCalls, toolResults,
                    customRuleInput >>

Next ==
    \/ \E call \in Calls : ToolCallEvent(call)
    \/ \E reason \in PreflightErrors : PreflightFails(reason)
    \/ \E selection \in FailureSelections : FailureSelect(selection)
    \/ \E metadata \in Metadatas, policyAttempt \in PolicyAttempts :
           PreflightSucceeds(metadata, policyAttempt)
    \/ \E action \in ApprovalActions : ApprovalChoice(action)
    \/ \E rule \in RuleTexts : CustomRule(rule)
    \/ \E check \in ConsistencyResults : ConsistencyReturns(check)
    \/ \E selection \in ConflictSelections : ConflictSelect(selection)
    \/ \E reason \in PreflightErrors : ReclassifyFails(reason)
    \/ \E metadata \in Metadatas, policyAttempt \in PolicyAttempts :
           ReclassifySucceeds(metadata, policyAttempt)
    \/ \E rule \in EditedRules : ExternalEdit(rule)

Spec == Init /\ [][Next]_vars

(***************************************************************************)
(* The Resolver alone: every placement of up to MaxRules entries in the    *)
(* two settings files, one resolution of one call.                         *)
(***************************************************************************)
Sources == { "workspace", "global" }

Entries ==
    { [rule |-> r, kind |-> k, source |-> src] :
          r \in RulePool, k \in { "allow", "ask", "deny" }, src \in Sources }
    \cup { [rule |-> RuleBashLs, kind |-> "policyOverrides", source |-> "workspace"] }
    \cup { [rule |-> DenyLsWithReason, kind |-> "deny", source |-> "workspace"] }
    \cup { [rule |-> << "Deny ls" >>, kind |-> k, source |-> "workspace"] :
               k \in { "llmRules.bash", "llmRules.mytool" } }

Placements == UNION { [1..n -> Entries] : n \in 0..MaxRules }

\* the entries of one list of one file, in the order of the placement
placed(placement, kind, source) ==
    LET here(e) == e.kind = kind /\ e.source = source
        chosen == SelectSeq(placement, here)
    IN  [i \in 1..Len(chosen) |-> chosen[i].rule]

policiesPlaced(placement, kind, source) ==
    LET texts == placed(placement, kind, source)
    IN  [i \in 1..Len(texts) |-> texts[i][1]]

settingsOf(placement, source) ==
    [ permissions |-> [ allow |-> placed(placement, "allow", source),
                        ask   |-> placed(placement, "ask", source),
                        deny  |-> placed(placement, "deny", source) ],
      preflight |-> [ policyOverrides |-> placed(placement, "policyOverrides", source),
                      llmRules |->
                          [t \in ToolKeys |->
                              IF t = << "bash" >>
                              THEN policiesPlaced(placement, "llmRules.bash", source)
                              ELSE policiesPlaced(placement, "llmRules.mytool", source)],
                      llmRulesArray |-> << >> ] ]

InitResolver ==
    /\ \E placement \in Placements :
           /\ wsFile = settingsOf(placement, "workspace")
           /\ glFile = settingsOf(placement, "global")
    /\ hasUI \in BOOLEAN
    /\ approvalMode \in ApprovalModes
    /\ toolCall \in Calls
    /\ pc = "resolve"
    /\ permissions = loadPermissionsState(wsFile, glFile)
    /\ loopPermissions = NoPermissions
    /\ scopedPermissions = NoPermissions
    /\ preflightResult = NoPreflight
    /\ decisions = NoDecision
    /\ currentDecision = NoDecision
    /\ currentMetadata = NoMetadata
    /\ approvalDecision = NoApprovalDecision
    /\ consistency = NoConsistency
    /\ conflictChoice = NoConflictChoice
    /\ applied = NoApplied
    /\ approvals = NoApproval
    /\ result = NoResult
    /\ failureDecision = NoFailureDecision
    /\ edits = 0
    /\ handled = 0
    /\ blockedToolCalls = NoBlockedToolCalls
    /\ toolResults = NoToolResults
    /\ customRuleInput = ""
    /\ dialog = NoDialog
    /\ batch = NoBatch
    /\ store = NoStore

\* resolveToolDecisions for the one call, with the metadata of the classifier
\* (or none) and the answer evaluatePolicyRule gives if it is asked
Resolve(metadata, policyAttempt) ==
    /\ UNCHANGED << dialog, batch, store >>
    /\ pc = "resolve"
    /\ currentMetadata' = metadata
    /\ decisions' = resolveToolDecision(toolCall, metadata, hasUI, approvalMode,
                                        permissions, policyAttempt)
    /\ pc' = "resolved"
    /\ UNCHANGED << applied, wsFile, glFile, hasUI, approvalMode, toolCall, permissions,
                    loopPermissions, scopedPermissions, preflightResult,
                    currentDecision, approvalDecision, consistency, conflictChoice,
                    approvals, result, failureDecision, edits, handled, blockedToolCalls, toolResults, customRuleInput >>

NextResolver ==
    \E metadata \in Metadatas \cup { NoMetadata }, policyAttempt \in PolicyAttempts :
        Resolve(metadata, policyAttempt)

SpecResolver == InitResolver /\ [][NextResolver]_vars

(***************************************************************************)
(* The approval dialog (requestApproval): the locals of its closure, the   *)
(* keys it handles and the two kinds of fetch it starts.                   *)
(***************************************************************************)
\* abort controllers one dialog may create
MaxFetches == 4

\* the row below the three base options
customRuleIndex == 3

\* baseOptions[index].action
baseOptionAction(index) ==
    CASE index = 0 -> "allow"
      [] index = 1 -> "allow-persist"
      [] OTHER     -> "deny"

\* the text with one space appended: insertAtCursor(value, end, " ")
appendSpace(text) ==
    CASE text = ""         -> " "
      [] text = "Deny rm"  -> "Deny rm "
      [] text = "Allow ls" -> "Allow ls "
      [] text = "Allow LS" -> "Allow LS "
      [] text = "Deny ls"  -> "Deny ls "
      [] OTHER             -> "undefined"

codePointLength(value) ==
    CASE value = ""    -> 0
      [] value = " "   -> 1
      [] value \in {"Deny rm", "Deny ls"}     -> 7
      [] value \in {"Allow ls", "Allow LS", "Deny rm ", "Deny ls "} -> 8
      [] OTHER         -> 9

\* String.prototype.toLowerCase on the suggestion texts
toLowerCase(text) ==
    CASE text \in {"Allow ls", "Allow LS"} -> "allow ls"
      [] text = "Deny ls"                  -> "deny ls"
      [] OTHER                             -> text

\* the texts a user types in one go, and the lines a model answers with
TypedTexts == {"Deny rm", " "}
RawLines == {"allow ls", "- Allow LS", "Deny ls", "Suggestions:"}

\* a line of the response as a suggestion, "undefined" for a line that holds none
normalizeRuleSuggestionLine(line) ==
    CASE line = "allow ls"   -> "Allow ls"
      [] line = "- Allow LS" -> "Allow LS"
      [] line = "Deny ls"    -> "Deny ls"
      [] OTHER               -> "undefined"

RECURSIVE normalizeLines(_, _, _)
\* the loop of normalizeRuleSuggestions: lines still to read, the suggestions
\* kept so far, and the suggestions of earlier batches
normalizeLines(lines, suggestions, previousSuggestions) ==
    IF lines = << >> THEN suggestions
    ELSE LET normalized == normalizeRuleSuggestionLine(Head(lines))
             key        == toLowerCase(normalized)
             seen       == { toLowerCase(suggestions[i]) : i \in 1..Len(suggestions) }
             previous   == { toLowerCase(previousSuggestions[i]) :
                                 i \in 1..Len(previousSuggestions) }
         IN  IF normalized = "undefined" \/ key \in seen \/ key \in previous
             THEN normalizeLines(Tail(lines), suggestions, previousSuggestions)
             ELSE normalizeLines(Tail(lines), Append(suggestions, normalized),
                                 previousSuggestions)

normalizeRuleSuggestions(lines, previousSuggestions) ==
    normalizeLines(lines, << >>, previousSuggestions)

\* what the suggestion request can come back with: no model, a thrown
\* request, or the lines of a response
SuggestionOutcomes ==
    { [model |-> FALSE, thrown |-> FALSE, lines |-> << >>],
      [model |-> TRUE,  thrown |-> TRUE,  lines |-> << >>] }
    \cup { [model |-> TRUE, thrown |-> FALSE, lines |-> lines] :
             lines \in { << >>, <<"allow ls", "Deny ls">>, <<"- Allow LS", "Deny ls">>,
                         <<"Suggestions:", "Deny ls">> } }

\* buildRuleSuggestion that does not filter the response against the
\* suggestions of earlier batches
buildRuleSuggestionNoHistory(outcome, previousSuggestions) ==
    IF ~outcome.model \/ outcome.thrown \/ normalizeRuleSuggestions(outcome.lines, << >>) = << >>
    THEN [status |-> "error", suggestions |-> << >>]
    ELSE [status |-> "ok", suggestions |-> normalizeRuleSuggestions(outcome.lines, << >>)]

buildRuleSuggestion(outcome, previousSuggestions) ==
    IF ~outcome.model
    THEN [status |-> "error", suggestions |-> << >>]
    ELSE IF outcome.thrown
    THEN [status |-> "error", suggestions |-> << >>]
    ELSE IF normalizeRuleSuggestions(outcome.lines, previousSuggestions) = << >>
    THEN [status |-> "error", suggestions |-> << >>]
    ELSE [status |-> "ok",
          suggestions |-> normalizeRuleSuggestions(outcome.lines, previousSuggestions)]

\* what the explanation request can come back with
ExplanationOutcomes ==
    { [status |-> "ok", text |-> "explanation", reason |-> "undefined"],
      [status |-> "error", text |-> "undefined", reason |-> "Explanation unavailable."] }

hasCustomRuleInput(input) == trimText(input) # ""

getCurrentRuleSuggestion(d) ==
    IF Len(d.ruleSuggestions) = 0 THEN "undefined"
    ELSE IF d.ruleSuggestionIndex < Len(d.ruleSuggestions) - 1
    THEN d.ruleSuggestions[d.ruleSuggestionIndex + 1]
    ELSE d.ruleSuggestions[Len(d.ruleSuggestions)]

resolveRuleSuggestion(d, input) ==
    IF hasCustomRuleInput(input) THEN "undefined" ELSE getCurrentRuleSuggestion(d)

canCycleRuleSuggestion(status, input, suggestionsCount, touched, usesSuggestion) ==
    IF status = "loading" THEN FALSE
    ELSE IF suggestionsCount = 0 THEN FALSE
    ELSE IF trimText(input) # "" /\ ~usesSuggestion THEN FALSE
    ELSE TRUE

resolveRuleSuggestionEnabled(d, input) ==
    canCycleRuleSuggestion(d.ruleStatus, input, Len(d.ruleSuggestions),
                           d.customRuleTouched, d.customRuleUsesSuggestion)

\* the rule the custom row submits, "undefined" for none
resolveCustomRule(input, suggestion, acceptSuggestion) ==
    IF trimText(input) # "" THEN trimText(input)
    ELSE IF ~acceptSuggestion THEN "undefined"
    ELSE suggestion

buildCustomRuleOptionLabel(input, suggestion, status) ==
    IF trimText(input) # "" THEN input
    ELSE IF status = "loading" THEN "Fetching suggestion..."
    ELSE IF suggestion # "undefined" THEN suggestion
    ELSE "Type custom rule"

\* the custom row as updateOptions renders it
customRuleLabel(d, input) ==
    buildCustomRuleOptionLabel(input, resolveRuleSuggestion(d, input), d.ruleStatus)

\* AbortController.abort on the controller `id` (0: there is none)
abortController(signals, id) ==
    IF id = 0 THEN signals ELSE [signals EXCEPT ![id] = TRUE]

RECURSIVE addRuleHistory(_, _)
addRuleHistory(history, suggestions) ==
    IF suggestions = << >> THEN history
    ELSE IF \E i \in 1..Len(history) : history[i] = Head(suggestions)
    THEN addRuleHistory(history, Tail(suggestions))
    ELSE addRuleHistory(Append(history, Head(suggestions)), Tail(suggestions))

applyRuleSuggestions(d, suggestions) ==
    [d EXCEPT !.ruleSuggestions = suggestions,
              !.ruleSuggestionIndex = 0,
              !.ruleHistory = addRuleHistory(d.ruleHistory, suggestions)]

\* startRuleSuggestionFetch without the abort of the fetch it replaces
startRuleSuggestionFetchNoAbort(d, input) ==
    IF d.ruleStatus = "loading" THEN d
    ELSE IF hasCustomRuleInput(input) /\ ~d.customRuleUsesSuggestion THEN d
    ELSE [d EXCEPT !.ruleStatus = "loading",
                   !.signals = Append(d.signals, FALSE),
                   !.ruleController = Len(d.signals) + 1,
                   !.pending = @ \cup { [id |-> Len(d.signals) + 1, kind |-> "rules",
                                         excluded |-> d.ruleHistory] }]

startRuleSuggestionFetch(d, input) ==
    IF d.ruleStatus = "loading" THEN d
    ELSE IF hasCustomRuleInput(input) /\ ~d.customRuleUsesSuggestion THEN d
    ELSE [d EXCEPT !.ruleStatus = "loading",
                   !.signals = Append(abortController(d.signals, d.ruleController), FALSE),
                   !.ruleController = Len(d.signals) + 1,
                   !.pending = @ \cup { [id |-> Len(d.signals) + 1, kind |-> "rules",
                                         excluded |-> d.ruleHistory] }]

startExplain(d) ==
    IF ~d.hasExplain \/ d.status = "loading" THEN d
    ELSE [d EXCEPT !.status = "loading",
                   !.statusMessage = "undefined",
                   !.explanation = "undefined",
                   !.signals = Append(abortController(d.signals, d.explainController), FALSE),
                   !.explainController = Len(d.signals) + 1,
                   !.pending = @ \cup { [id |-> Len(d.signals) + 1, kind |-> "explain",
                                         excluded |-> << >>] }]

\* the closure's locals once the dialog is built: the first suggestion fetch
\* is already in flight
NewDialog(explain) ==
    startRuleSuggestionFetch(
        [ open |-> TRUE, hasExplain |-> explain, selectedIndex |-> 0,
          explanation |-> "undefined", status |-> "idle", statusMessage |-> "undefined",
          explainController |-> 0,
          ruleSuggestions |-> << >>, ruleSuggestionIndex |-> 0, ruleStatus |-> "idle",
          ruleController |-> 0,
          customRuleCursor |-> 0, customRuleTouched |-> FALSE,
          customRuleUsesSuggestion |-> FALSE, ruleHistory |-> << >>,
          signals |-> << >>, pending |-> {}, dropped |-> {} ], "")

\* the flow's variables, which no step of the dialog touches
flowVars ==
    << wsFile, glFile, hasUI, approvalMode, toolCall, permissions, loopPermissions,
       scopedPermissions, preflightResult, decisions, currentDecision, currentMetadata,
       consistency, conflictChoice, applied, approvals, result, failureDecision,
       edits, handled, blockedToolCalls, toolResults, batch, store >>

\* the handler has asked for approval of the call and the dialog is on screen
InitDialog ==
    /\ wsFile = EmptySettings
    /\ glFile = EmptySettings
    /\ hasUI = TRUE
    /\ approvalMode = "all"
    /\ pc = "approval-dialog"
    /\ toolCall = BashLs
    /\ permissions = loadPermissionsState(wsFile, glFile)
    /\ loopPermissions = permissions
    /\ scopedPermissions = NoPermissions
    /\ preflightResult = [status |-> "ok", reason |-> "undefined"]
    /\ currentMetadata \in Metadatas
    /\ decisions = resolveToolDecision(toolCall, currentMetadata, hasUI, approvalMode,
                                       permissions,
                                       CHOOSE attempt \in PolicyAttempts :
                                           attempt.status = "error")
    /\ currentDecision = decisions
    /\ approvalDecision = NoApprovalDecision
    /\ consistency = NoConsistency
    /\ conflictChoice = NoConflictChoice
    /\ applied = NoApplied
    /\ approvals = NoApproval
    /\ result = NoResult
    /\ failureDecision = NoFailureDecision
    /\ edits = 0
    /\ handled = 0
    /\ blockedToolCalls = NoBlockedToolCalls
    /\ toolResults = NoToolResults
    /\ customRuleInput = ""
    /\ \E explain \in BOOLEAN : dialog = NewDialog(explain)
    /\ batch = NoBatch
    /\ store = NoStore

\* done(selection): the dialog closes and requestApproval returns the selection
done(selection) ==
    /\ dialog' = [dialog EXCEPT !.open = FALSE]
    /\ approvalDecision' = selection
    /\ pc' = "dialog-closed"
    /\ UNCHANGED customRuleInput

\* selectUp / selectDown
SelectUp ==
    /\ dialog.open
    /\ dialog' = [dialog EXCEPT !.selectedIndex =
                      IF dialog.selectedIndex = 0 THEN 0 ELSE dialog.selectedIndex - 1]
    /\ UNCHANGED << flowVars, pc, approvalDecision, customRuleInput >>

SelectDown ==
    /\ dialog.open
    /\ dialog' = [dialog EXCEPT !.selectedIndex =
                      IF dialog.selectedIndex = customRuleIndex THEN customRuleIndex
                      ELSE dialog.selectedIndex + 1]
    /\ UNCHANGED << flowVars, pc, approvalDecision, customRuleInput >>

\* handleSelection(index)
handleSelection(index) ==
    IF index # customRuleIndex
    THEN done([action |-> baseOptionAction(index), rule |-> ""])
    ELSE IF resolveCustomRule(customRuleInput,
                              resolveRuleSuggestion(dialog, customRuleInput),
                              FALSE) = "undefined"
    THEN /\ dialog' = [dialog EXCEPT !.ruleStatus = "error"]
         /\ UNCHANGED << pc, approvalDecision, customRuleInput >>
    ELSE done([action |-> "custom-rule",
               rule |-> resolveCustomRule(customRuleInput,
                                          resolveRuleSuggestion(dialog, customRuleInput),
                                          FALSE)])

\* selectConfirm on the highlighted row
Confirm ==
    /\ dialog.open
    /\ handleSelection(dialog.selectedIndex)
    /\ UNCHANGED flowVars

\* selectCancel
Cancel ==
    /\ dialog.open
    /\ done([action |-> "deny", rule |-> ""])
    /\ UNCHANGED flowVars

\* an explain key
Explain ==
    /\ dialog.open
    /\ Len(dialog.signals) < MaxFetches
    /\ dialog' = startExplain(dialog)
    /\ UNCHANGED << flowVars, pc, approvalDecision, customRuleInput >>

\* handleCustomRuleInput on the tab key
Tab ==
    /\ dialog.open
    /\ dialog.selectedIndex = customRuleIndex
    /\ Len(dialog.signals) < MaxFetches
    /\ IF ~resolveRuleSuggestionEnabled(dialog, customRuleInput)
       THEN UNCHANGED << dialog, customRuleInput >>
       ELSE IF ~hasCustomRuleInput(customRuleInput)
       THEN /\ customRuleInput' = getCurrentRuleSuggestion(dialog)
            /\ dialog' = [dialog EXCEPT !.customRuleTouched = TRUE,
                                        !.customRuleUsesSuggestion = TRUE,
                                        !.customRuleCursor =
                                            codePointLength(customRuleInput')]
       ELSE IF ~dialog.customRuleUsesSuggestion
       THEN UNCHANGED << dialog, customRuleInput >>
       ELSE IF dialog.ruleSuggestionIndex < Len(dialog.ruleSuggestions) - 1
       THEN /\ customRuleInput' = dialog.ruleSuggestions[dialog.ruleSuggestionIndex + 2]
            /\ dialog' = [dialog EXCEPT !.ruleSuggestionIndex = @ + 1,
                                        !.customRuleCursor =
                                            codePointLength(customRuleInput')]
       ELSE /\ dialog' = startRuleSuggestionFetch(dialog, customRuleInput)
            /\ UNCHANGED customRuleInput
    /\ UNCHANGED << flowVars, pc, approvalDecision >>

\* handleCustomRuleInput on cursorLineStart / cursorLineEnd
CursorKey(key) ==
    /\ dialog.open
    /\ dialog.selectedIndex = customRuleIndex
    /\ dialog' = [dialog EXCEPT !.customRuleTouched = TRUE,
                                !.customRuleCursor =
                                    IF key = "cursorLineStart" THEN 0
                                    ELSE codePointLength(customRuleInput)]
    /\ UNCHANGED << flowVars, pc, approvalDecision, customRuleInput >>

removeToLineStart(value, cursor) ==
    IF cursor = 0 THEN [value |-> value, cursor |-> 0]
    ELSE [value |-> "", cursor |-> 0]

removeToLineEnd(value, cursor) ==
    IF cursor = 0 THEN [value |-> "", cursor |-> 0]
    ELSE [value |-> value, cursor |-> cursor]

\* handleCustomRuleInput on deleteToLineStart / deleteToLineEnd
DeleteKey(key) ==
    /\ dialog.open
    /\ dialog.selectedIndex = customRuleIndex
    /\ LET next == IF key = "deleteToLineStart"
                   THEN removeToLineStart(customRuleInput, dialog.customRuleCursor)
                   ELSE removeToLineEnd(customRuleInput, dialog.customRuleCursor)
       IN  /\ customRuleInput' = next.value
           /\ dialog' = [dialog EXCEPT !.customRuleTouched = TRUE,
                                       !.customRuleUsesSuggestion = FALSE,
                                       !.customRuleCursor = next.cursor]
    /\ UNCHANGED << flowVars, pc, approvalDecision >>

\* the text after typing `text` at the cursor: a whole text into the empty
\* input, or a space at the end of the text
insertAtCursor(value, cursor, text) ==
    IF value = "" THEN [value |-> text, cursor |-> codePointLength(text)]
    ELSE [value |-> appendSpace(value), cursor |-> cursor + 1]

\* handleCustomRuleInput on printable input
Printable(text) ==
    /\ dialog.open
    /\ dialog.selectedIndex = customRuleIndex
    /\ \/ customRuleInput = ""
       \/ /\ text = " "
          /\ dialog.customRuleCursor = codePointLength(customRuleInput)
          /\ appendSpace(customRuleInput) # "undefined"
    /\ LET next == insertAtCursor(customRuleInput, dialog.customRuleCursor, text)
       IN  /\ customRuleInput' = next.value
           /\ dialog' = [dialog EXCEPT !.customRuleTouched = TRUE,
                                       !.customRuleUsesSuggestion = FALSE,
                                       !.customRuleCursor = next.cursor]
    /\ UNCHANGED << flowVars, pc, approvalDecision >>

\* fetchExplanation(signal) from the point where the request resolves
fetchExplanation(fetch, outcome) ==
    IF dialog.signals[fetch.id]
    THEN /\ dialog' = [dialog EXCEPT !.pending = @ \ { fetch },
                                     !.dropped = @ \cup { fetch.id }]
         /\ UNCHANGED customRuleInput
    ELSE /\ dialog' = [dialog EXCEPT !.pending = @ \ { fetch },
                           !.explanation = outcome.text,
                           !.status = IF outcome.status = "ok" THEN "idle" ELSE "error",
                           !.statusMessage = outcome.reason]
         /\ UNCHANGED customRuleInput

\* the explanation request of an in-flight fetch resolves
ExplanationArrives(fetch, outcome) ==
    /\ fetch \in dialog.pending
    /\ fetch.kind = "explain"
    /\ fetchExplanation(fetch, outcome)
    /\ UNCHANGED << flowVars, pc, approvalDecision >>

\* fetchRuleSuggestions without the check of the signal
fetchRuleSuggestionsIgnoresAbort(fetch, outcome) ==
    LET attempt == buildRuleSuggestion(outcome, dialog.ruleHistory)
        next == applyRuleSuggestions(dialog, attempt.suggestions)
    IN  IF attempt.status = "ok"
        THEN /\ customRuleInput' = IF dialog.customRuleUsesSuggestion
                                   THEN getCurrentRuleSuggestion(next)
                                   ELSE customRuleInput
             /\ dialog' = [next EXCEPT !.pending = @ \ { fetch },
                               !.ruleStatus = "idle",
                               !.customRuleCursor =
                                   IF dialog.customRuleUsesSuggestion
                                   THEN codePointLength(customRuleInput')
                                   ELSE @]
        ELSE /\ dialog' = [dialog EXCEPT !.pending = @ \ { fetch },
                                         !.ruleStatus = "error"]
             /\ UNCHANGED customRuleInput

\* fetchRuleSuggestions that puts the first suggestion of the batch into the
\* input whatever the input holds
fetchRuleSuggestionsOverwritesInput(fetch, outcome) ==
    LET attempt == buildRuleSuggestion(outcome, dialog.ruleHistory)
        next == applyRuleSuggestions(dialog, attempt.suggestions)
    IN  IF dialog.signals[fetch.id]
        THEN /\ dialog' = [dialog EXCEPT !.pending = @ \ { fetch },
                                         !.dropped = @ \cup { fetch.id }]
             /\ UNCHANGED customRuleInput
        ELSE IF attempt.status = "ok"
        THEN /\ customRuleInput' = getCurrentRuleSuggestion(next)
             /\ dialog' = [next EXCEPT !.pending = @ \ { fetch },
                               !.ruleStatus = "idle",
                               !.customRuleCursor = codePointLength(customRuleInput')]
        ELSE /\ dialog' = [dialog EXCEPT !.pending = @ \ { fetch },
                                         !.ruleStatus = "error"]
             /\ UNCHANGED customRuleInput

\* fetchRuleSuggestions(signal) from the point where the request resolves:
\* the batch is filtered against the history as it is by then
fetchRuleSuggestions(fetch, outcome) ==
    LET attempt == buildRuleSuggestion(outcome, dialog.ruleHistory)
        next == applyRuleSuggestions(dialog, attempt.suggestions)
    IN  IF dialog.signals[fetch.id]
        THEN /\ dialog' = [dialog EXCEPT !.pending = @ \ { fetch },
                                         !.dropped = @ \cup { fetch.id }]
             /\ UNCHANGED customRuleInput
        ELSE IF attempt.status = "ok"
        THEN /\ customRuleInput' = IF dialog.customRuleUsesSuggestion
                                   THEN getCurrentRuleSuggestion(next)
                                   ELSE customRuleInput
             /\ dialog' = [next EXCEPT !.pending = @ \ { fetch },
                               !.ruleStatus = "idle",
                               !.customRuleCursor =
                                   IF dialog.customRuleUsesSuggestion
                                   THEN codePointLength(customRuleInput')
                                   ELSE @]
        ELSE /\ dialog' = [dialog EXCEPT !.pending = @ \ { fetch },
                                         !.ruleStatus = "error"]
             /\ UNCHANGED customRuleInput

\* the suggestion request of an in-flight fetch resolves
SuggestionsArrive(fetch, outcome) ==
    /\ fetch \in dialog.pending
    /\ fetch.kind = "rules"
    /\ fetchRuleSuggestions(fetch, outcome)
    /\ UNCHANGED << flowVars, pc, approvalDecision >>

NextDialog ==
    \/ SelectUp
    \/ SelectDown
    \/ Confirm
    \/ Cancel
    \/ Explain
    \/ Tab
    \/ \E key \in {"cursorLineStart", "cursorLineEnd"} : CursorKey(key)
    \/ \E key \in {"deleteToLineStart", "deleteToLineEnd"} : DeleteKey(key)
    \/ \E text \in TypedTexts : Printable(text)
    \/ \E fetch \in dialog.pending, outcome \in ExplanationOutcomes :
           ExplanationArrives(fetch, outcome)
    \/ \E fetch \in dialog.pending, outcome \in SuggestionOutcomes :
           SuggestionsArrive(fetch, outcome)

SpecDialog == InitDialog /\ [][NextDialog]_vars

(***************************************************************************)
(* collectApprovals over a batch of tool calls.  A call of the batch is    *)
(* its position in event.toolCalls; what the rule authoring of one call    *)
(* does in detail is the flow above, here it is only how it ends.          *)
(***************************************************************************)
\* tool calls in one batch
MaxBatch == 3

Batches ==
    UNION { [1..n -> {"allow", "ask", "deny"}] : n \in 1..MaxBatch }

batchVars ==
    << glFile, approvalMode, toolCall, permissions, loopPermissions,
       scopedPermissions, preflightResult, decisions, currentDecision, currentMetadata,
       approvalDecision, customRuleInput, dialog, consistency, conflictChoice, applied,
       approvals, result, failureDecision, edits, handled, blockedToolCalls, toolResults, store >>

\* collectApprovals is entered with the initial decisions of the batch
InitBatch ==
    /\ wsFile = EmptySettings
    /\ glFile = EmptySettings
    /\ hasUI \in BOOLEAN
    /\ approvalMode = "all"
    /\ pc = "batch-prepare"
    /\ toolCall = NoCall
    /\ permissions = NoPermissions
    /\ loopPermissions = NoPermissions
    /\ scopedPermissions = NoPermissions
    /\ preflightResult = NoPreflight
    /\ decisions = NoDecision
    /\ currentDecision = NoDecision
    /\ currentMetadata = NoMetadata
    /\ approvalDecision = NoApprovalDecision
    /\ consistency = NoConsistency
    /\ conflictChoice = NoConflictChoice
    /\ applied = NoApplied
    /\ approvals = NoApproval
    /\ result = NoResult
    /\ failureDecision = NoFailureDecision
    /\ edits = 0
    /\ handled = 0
    /\ blockedToolCalls = NoBlockedToolCalls
    /\ toolResults = NoToolResults
    /\ customRuleInput = ""
    /\ dialog = NoDialog
    /\ store = NoStore
    /\ \E calls \in Batches :
           batch = [calls |-> calls, index |-> 0,
                    approvals |-> [i \in 1..Len(calls) |-> "none"], open |-> {}]

\* the calls of a batch that need approval are equal calls (the same command
\* more than once), and the rule the user writes for them is one text
askedCall == BashLs

askedRule == "Deny ls"

\* the call is one the second loop asks the user about
askPending(calls, ui, i) == calls[i] = "ask" /\ ui

\* the first loop: denied calls and, without a UI, calls that need approval
\* get their outcome at once; then the early return or the second loop
BatchPrepare ==
    /\ pc = "batch-prepare"
    /\ batch' = [batch EXCEPT
                    !.approvals = [i \in 1..Len(batch.calls) |->
                                     IF batch.calls[i] = "deny" THEN "deny"
                                     ELSE IF batch.calls[i] = "ask" /\ ~hasUI THEN "deny"
                                     ELSE "none"],
                    !.index = 1]
    /\ pc' = IF \E i \in 1..Len(batch.calls) : askPending(batch.calls, hasUI, i)
             THEN "batch-loop" ELSE "batch-done"
    /\ UNCHANGED << batchVars, hasUI, wsFile >>

\* the second loop passes a call that is not to be asked about
BatchSkip ==
    /\ pc = "batch-loop"
    /\ batch.index <= Len(batch.calls)
    /\ ~askPending(batch.calls, hasUI, batch.index)
    /\ batch' = [batch EXCEPT !.index = @ + 1]
    /\ UNCHANGED << batchVars, hasUI, pc, wsFile >>

\* a loop that opens the dialog of the call and goes on to the next call
\* without waiting for the answer
BatchRequestApprovalNoAwait ==
    /\ pc = "batch-loop"
    /\ batch.index <= Len(batch.calls)
    /\ askPending(batch.calls, hasUI, batch.index)
    /\ batch' = [batch EXCEPT !.open = @ \cup { batch.index }, !.index = @ + 1]
    /\ UNCHANGED << batchVars, hasUI, pc, wsFile >>

\* the second loop reaches a call to ask about: requestApproval opens its
\* dialog and the loop waits for the answer
BatchRequestApproval ==
    /\ pc = "batch-loop"
    /\ batch.index <= Len(batch.calls)
    /\ askPending(batch.calls, hasUI, batch.index)
    /\ batch' = [batch EXCEPT !.open = @ \cup { batch.index }]
    /\ pc' = "batch-dialog"
    /\ UNCHANGED << batchVars, hasUI, wsFile >>

\* an answer that is taken for every call of the batch, the earlier ones too
BatchAnswerForAll(action) ==
    /\ pc = "batch-dialog"
    /\ IF action = "custom-rule"
       THEN /\ batch' = [batch EXCEPT !.open = @ \ { batch.index }]
            /\ pc' = "batch-rule"
       ELSE /\ batch' = [batch EXCEPT !.open = @ \ { batch.index },
                                      !.approvals = [i \in 1..Len(batch.calls) |->
                                          IF action = "deny" THEN "deny" ELSE "allow"],
                                      !.index = @ + 1]
            /\ pc' = "batch-loop"
    /\ wsFile' = IF action = "allow-persist"
                 THEN persistWorkspaceRule(wsFile, askedCall, "allow") ELSE wsFile
    /\ UNCHANGED << batchVars, hasUI >>

\* the dialog closes with the user's choice: an outcome for the call and on
\* to the next, or a custom rule to work on
BatchAnswer(action) ==
    /\ pc = "batch-dialog"
    /\ IF action = "custom-rule"
       THEN /\ batch' = [batch EXCEPT !.open = @ \ { batch.index }]
            /\ pc' = "batch-rule"
       ELSE /\ batch' = [batch EXCEPT !.open = @ \ { batch.index },
                                      !.approvals[batch.index] =
                                          IF action = "deny" THEN "deny" ELSE "allow",
                                      !.index = @ + 1]
            /\ pc' = "batch-loop"
    /\ wsFile' = IF action = "allow-persist"
                 THEN persistWorkspaceRule(wsFile, askedCall, "allow") ELSE wsFile
    /\ UNCHANGED << batchVars, hasUI >>

\* the custom rule has been checked, saved and applied, or given up: an
\* outcome for the call, or the dialog of the same call again
BatchRuleOutcome(outcome) ==
    /\ pc = "batch-rule"
    /\ IF outcome \in {"edit-rule", "ask"}
       THEN /\ batch' = [batch EXCEPT !.open = @ \cup { batch.index }]
            /\ pc' = "batch-dialog"
       ELSE /\ batch' = [batch EXCEPT !.approvals[batch.index] =
                                          IF outcome = "allow" THEN "allow" ELSE "deny",
                                      !.index = @ + 1]
            /\ pc' = "batch-loop"
    /\ wsFile' = IF outcome \in {"edit-rule", "cancel"} THEN wsFile
                 ELSE persistPolicyRule(wsFile, askedCall, askedRule)
    /\ UNCHANGED << batchVars, hasUI >>

\* the second loop is through: collectApprovals returns the approvals
BatchReturn ==
    /\ pc = "batch-loop"
    /\ batch.index > Len(batch.calls)
    /\ pc' = "batch-done"
    /\ UNCHANGED << batchVars, hasUI, batch, wsFile >>

NextBatch ==
    \/ BatchPrepare
    \/ BatchSkip
    \/ BatchRequestApproval
    \/ \E action \in {"allow", "allow-persist", "deny", "custom-rule"} : BatchAnswer(action)
    \/ \E outcome \in {"edit-rule", "cancel", "error", "allow", "deny", "ask"} :
           BatchRuleOutcome(outcome)
    \/ BatchReturn

SpecBatch == InitBatch /\ [][NextBatch]_vars

(***************************************************************************)
(* Saves on the workspace settings file: what each persist function        *)
(* writes, returns and notifies, on documents of every stored shape, with  *)
(* writes that can fail.                                                   *)
(***************************************************************************)
\* notify(ctx, message): the messages shown by one call
notify(ui, text, about) ==
    IF ui THEN << [text |-> text, about |-> about] >> ELSE << >>

\* the bucket of the document a permission rule of this kind goes to
permissionList(existing, kind) ==
    LET normalized == normalizePermissionsRecord(existing.permissions)
    IN  IF kind = "deny" THEN normalized.deny
        ELSE IF kind = "ask" THEN normalized.ask ELSE normalized.allow

\* what persistWorkspaceRule shows when its write, if any, succeeds
persistWorkspaceRuleNotices(existing, call, decision, ui) ==
    IF decision # "allow" /\ decision # "deny"
    THEN notify(ui, "Could not save rule for this tool call.", << >>)
    ELSE IF buildRuleForToolCall(call) = Undef
    THEN notify(ui, "Could not save rule for this tool call.", << >>)
    ELSE IF includes(permissionList(existing, decision), buildRuleForToolCall(call))
    THEN notify(ui, "Rule already exists: ", buildRuleForToolCall(call))
    ELSE notify(ui, "Saved rule: ", buildRuleForToolCall(call))

\* what persistPolicyOverride shows when its write, if any, succeeds
persistPolicyOverrideNotices(existing, call, ui) ==
    IF buildRuleForToolCall(call) = Undef
    THEN notify(ui, "Could not save policy override for this tool call.", << >>)
    ELSE IF includes(normalizePreflightRecord(existing.preflight, << >>).policyOverrides,
                     buildRuleForToolCall(call))
    THEN notify(ui, "Policy override already exists: ", buildRuleForToolCall(call))
    ELSE notify(ui, "Saved policy override: ", buildRuleForToolCall(call))

\* what persistPolicyRule shows when its write, if any, succeeds
persistPolicyRuleNotices(existing, call, policy, ui) ==
    LET tool == normalizeToolName(call.name)
    IN  IF trimText(policy) = ""
        THEN notify(ui, "Custom rule was empty.", << >>)
        ELSE IF tool = << >>
        THEN notify(ui, "Could not save custom rule for this tool.", << >>)
        ELSE IF includes(normalizePreflightRecord(existing.preflight, tool).llmRules[tool],
                         trimText(policy))
        THEN notify(ui, "Policy rule already exists: ", << trimText(policy) >>)
        ELSE notify(ui, "Saved custom rule for tool: ", << trimText(policy) >>)

\* documents found on disk: none yet, the canonical shape, and the two array
\* shapes of earlier versions
StoreFiles ==
    { EmptySettings,
      [EmptySettings EXCEPT !.permissions.allow = << RuleBashLs >>,
                            !.permissions.deny = << DenyLsWithReason >>,
                            !.preflight.llmRules[<< "bash" >>] = << "Deny ls" >>],
      [EmptySettings EXCEPT !.preflight.llmRulesArray =
           << [kind |-> "string", policy |-> "Ask before ls", pattern |-> << >>] >>],
      [EmptySettings EXCEPT !.preflight.llmRulesArray =
           << [kind |-> "object", policy |-> "Deny ls ", pattern |-> RuleBashLs],
              [kind |-> "string", policy |-> "Deny ls", pattern |-> << >>] >>] }

\* what the approval loop saves: for a bash call and a custom tool call, the
\* allow rule (and a kind persistWorkspaceRule refuses), a policy text, the
\* same text with a trailing space, and the empty text
StoreCalls == { BashLs, MyToolA, BashLsSpace, BashLsStar }
\* the calls a policy blocked or a custom rule was written for
PolicyCalls == { BashLs, MyToolA }
StoreDecisions == { "allow", "ask" }
PolicyInputs == { "Deny ls", "Deny ls ", "" }

storeVars ==
    << glFile, hasUI, approvalMode, pc, permissions, loopPermissions,
       scopedPermissions, preflightResult, decisions, currentDecision, currentMetadata,
       approvalDecision, customRuleInput, dialog, consistency, conflictChoice, applied,
       approvals, result, failureDecision, edits, handled, blockedToolCalls, toolResults, batch >>

\* the approval loop is about to save for a call; it runs only with a UI
InitStore ==
    /\ wsFile \in StoreFiles
    /\ glFile = EmptySettings
    /\ hasUI = TRUE
    /\ approvalMode = "all"
    /\ pc = "persist"
    /\ toolCall \in StoreCalls
    /\ permissions = NoPermissions
    /\ loopPermissions = NoPermissions
    /\ scopedPermissions = NoPermissions
    /\ preflightResult = NoPreflight
    /\ decisions = NoDecision
    /\ currentDecision = NoDecision
    /\ currentMetadata = NoMetadata
    /\ approvalDecision = NoApprovalDecision
    /\ consistency = NoConsistency
    /\ conflictChoice = NoConflictChoice
    /\ applied = NoApplied
    /\ approvals = NoApproval
    /\ result = NoResult
    /\ failureDecision = NoFailureDecision
    /\ edits = 0
    /\ handled = 0
    /\ blockedToolCalls = NoBlockedToolCalls
    /\ toolResults = NoToolResults
    /\ customRuleInput = ""
    /\ dialog = NoDialog
    /\ batch = NoBatch
    /\ store = NoStore

\* one persist call: `next` is the document it writes (the one on disk if it
\* writes nothing).  mkdirSync or writeFileSync may throw; nothing on the way
\* up catches it, the file keeps its content and no message is shown.
Save(op, kind, rule, next, notices, writeFails) ==
    IF next # wsFile /\ writeFails
    THEN /\ UNCHANGED wsFile
         /\ store' = [op |-> op, kind |-> kind, rule |-> rule, saved |-> FALSE,
                      failed |-> TRUE, thrown |-> TRUE, notices |-> << >>,
                      written |-> store.written]
    ELSE /\ wsFile' = next
         /\ store' = [op |-> op, kind |-> kind, rule |-> rule, saved |-> next # wsFile,
                      failed |-> FALSE, thrown |-> FALSE, notices |-> notices,
                      written |-> store.written \/ next # wsFile]

SaveWorkspaceRule(call, decision, writeFails) ==
    /\ pc = "persist"
    /\ toolCall' = call
    /\ Save("rule", decision, buildRuleForToolCall(call),
            persistWorkspaceRule(wsFile, call, decision),
            persistWorkspaceRuleNotices(wsFile, call, decision, hasUI), writeFails)
    /\ UNCHANGED storeVars

SavePolicyOverride(call, writeFails) ==
    /\ pc = "persist"
    /\ toolCall' = call
    /\ Save("override", "override", buildRuleForToolCall(call),
            persistPolicyOverride(wsFile, call),
            persistPolicyOverrideNotices(wsFile, call, hasUI), writeFails)
    /\ UNCHANGED storeVars

SavePolicyRule(call, policy, writeFails) ==
    /\ pc = "persist"
    /\ toolCall' = call
    /\ Save("policy", "policy", << trimText(policy) >>,
            persistPolicyRule(wsFile, call, policy),
            persistPolicyRuleNotices(wsFile, call, policy, hasUI), writeFails)
    /\ UNCHANGED storeVars

NextStore ==
    \/ \E call \in StoreCalls, decision \in StoreDecisions, writeFails \in BOOLEAN :
           SaveWorkspaceRule(call, decision, writeFails)
    \/ \E call \in PolicyCalls, writeFails \in BOOLEAN : SavePolicyOverride(call, writeFails)
    \/ \E call \in PolicyCalls, policy \in PolicyInputs, writeFails \in BOOLEAN :
           SavePolicyRule(call, policy, writeFails)

SpecStore == InitStore /\ [][NextStore]_vars

(***************************************************************************)
(* Claims about the Resolver (SpecResolver).                               *)
(***************************************************************************)
\* which bucket of the loaded rules holds a rule matching the call
matchesBucket(call, rules) ==
    \E i \in 1..Len(rules) : matchesPermissionRule(rules[i], call)

\* ToolDecision.source: a decision that carries a policy verdict comes from the
\* policy, one that carries only a matched rule is deterministic, any other
\* is the fallback of the approval mode
decisionSource(decision) ==
    IF decision.policy # NoPolicy THEN "policy"
    ELSE IF decision.rule.valid THEN "deterministic"
    ELSE "fallback"

\* C1: a call matching at least one deny rule is resolved to deny, even when
\* it also matches ask or allow rules, wherever the deny rule stands in its
\* list and whichever file it comes from.
C1_DenyPrecedence ==
    (pc = "resolved" /\ matchesBucket(toolCall, permissions.rules.deny))
        => /\ resolveBaseDecision(toolCall, currentMetadata, approvalMode,
                                  permissions).decision = "deny"
           /\ decisions.decision = "deny"
           /\ decisions.rule.kind = "deny"

\* C1 witness: the deny rule comes from the global file, and the call also
\* matches an allow rule of the workspace file, which is loaded first.
C1_Witness ==
    /\ pc = "resolved"
    /\ decisions.decision = "deny"
    /\ decisions.rule.source = "global"
    /\ matchesBucket(toolCall, permissions.rules.allow)
    /\ permissions.rules.allow[1].source = "workspace"

\* C2: when a deny rule matches, the final decision is deny and comes from
\* the deterministic layer (the matched rule and its reason, no policy
\* verdict), whatever the classifier answers and whatever the approval mode.
C2_DenyIsDeterministic ==
    (pc = "resolved" /\ matchesBucket(toolCall, permissions.rules.deny))
        => /\ decisions.decision = "deny"
           /\ decisionSource(decisions) = "deterministic"
           /\ decisions.reason = buildPermissionDenyReason(decisions.rule)

\* C2 witness: a deny rule matches a call whose tool has a policy rule.
C2_Witness ==
    /\ pc = "resolved"
    /\ matchesBucket(toolCall, permissions.rules.deny)
    /\ findMatchingPolicyRule(toolCall, permissions.policyRules) # NoPolicyRule
    /\ decisions.decision = "deny"
    /\ decisionSource(decisions) = "deterministic"

\* C3: when an allow rule matches and no deny or ask rule does, the final
\* decision is allow, whatever the classifier answers and whatever the
\* approval mode.
C3_AllowIsFinal ==
    (/\ pc = "resolved"
     /\ matchesBucket(toolCall, permissions.rules.allow)
     /\ ~matchesBucket(toolCall, permissions.rules.deny)
     /\ ~matchesBucket(toolCall, permissions.rules.ask))
        => decisions.decision = "allow"

\* C4: when an ask rule matches and no deny rule does, the final decision is
\* never allow; a policy verdict can only keep the ask or turn it into deny.
C4_AskNeverAllow ==
    (/\ pc = "resolved"
     /\ matchesBucket(toolCall, permissions.rules.ask)
     /\ ~matchesBucket(toolCall, permissions.rules.deny))
        => /\ decisions.decision \in { "ask", "deny" }
           /\ decisions.decision = "deny" => decisions.policy.decision = "deny"

\* C4 witness: an ask rule matched, the policy answered allow, the decision
\* stayed ask.
C4_Witness ==
    /\ pc = "resolved"
    /\ matchesBucket(toolCall, permissions.rules.ask)
    /\ decisions.policy.decision = "allow"
    /\ decisions.decision = "ask"

(***************************************************************************)
(* Claims about the handler and the approval loop (Spec).                  *)
(***************************************************************************)
\* C5: when the initial classification fails, the call is allowed only if the
\* user chose "Allow tool call(s) without preflight" in the failure prompt;
\* without a UI, or when the prompt is dismissed, the call is blocked.
C5_FailureNeverSilentlyAllows ==
    /\ \A ui \in BOOLEAN, selection \in FailureSelections, reason \in PreflightErrors :
           LET decision == handlePreflightFailure(reason, ui, selection)
           IN  /\ decision.action = "allow"
                     => ui /\ selection = "Allow tool call(s) without preflight"
               /\ (~ui \/ selection = "undefined") => decision.action = "block"
    /\ (pc = "done" /\ preflightResult.status = "error")
           => /\ result.done
              /\ ~result.block <=> failureDecision.action = "allow"
              /\ ~result.block => hasUI
              /\ result.block => result.reason.detail = preflightResult.reason
    /\ (result.done /\ ~result.block /\ approvals = NoApproval
            /\ decisions = NoDecision /\ preflightResult.status # "none")
           => failureDecision.action = "allow"

\* C5 witness: the classification failed, the prompt was dismissed, and the
\* call ended blocked.
C5_Witness ==
    /\ pc = "done"
    /\ hasUI
    /\ preflightResult.status = "error"
    /\ failureDecision.reason.text = "Preflight failed (no response from user)."
    /\ result.block

\* C6: when the re-classification that follows the save of a custom rule
\* fails, the call ends denied with a reason that names the failure, and is
\* never allowed.
C6_ReclassifyFailureDenies ==
    applied.status = "error"
        => /\ pc = "done"
           /\ approvalDecision.action = "custom-rule"
           /\ result.done /\ result.block
           /\ result.reason.text = "Failed to validate custom rule"
           /\ result.reason.detail \in PreflightErrors

\* C6 witness: the rule was saved, the re-classification failed, the call is
\* blocked.
C6_Witness ==
    /\ applied.status = "error"
    /\ includes(wsFile.preflight.llmRules[normalizeToolName(toolCall.name)],
                approvalDecision.rule)
    /\ result.block

\* C7: after a custom rule was saved, a re-resolution to deny ends the call
\* denied with the reason the resolver gave; a call that ends allowed after a
\* custom rule was authored owes it to a re-resolution to allow.
C7_SavedRuleNeverAllowsByItself ==
    /\ (pc = "done" /\ applied.status = "ok" /\ currentDecision.decision = "deny")
           => /\ result.block
              /\ currentDecision.reason # NoReason
              /\ result.reason = currentDecision.reason
    /\ (pc = "done" /\ approvalDecision.action = "custom-rule" /\ ~result.block)
           => applied.status = "ok" /\ currentDecision.decision = "allow"
    /\ pc = "reclassify" => ~result.done

\* C7 witness: a rule was saved, the re-resolution answered deny, the call is
\* blocked with the resolver's reason.
C7_Witness ==
    /\ pc = "done"
    /\ applied.status = "ok"
    /\ approvalDecision.action = "custom-rule"
    /\ currentDecision.decision = "deny"
    /\ result.block
    /\ result.reason = currentDecision.reason

\* C8: when the consistency check reports a conflict, a dismissed conflict
\* dialog means edit rule, and the candidate rule is written only by a step
\* in which "Save anyway" was chosen.
C8_ConflictNeverSilentlySaves ==
    [][ /\ (pc = "consistency-check" /\ consistency'.conflict) => wsFile' = wsFile
        /\ pc = "conflict-dialog"
              => /\ wsFile' # wsFile => conflictChoice'.selection = "Save anyway"
                 /\ pc' = "reclassify" => conflictChoice'.selection = "Save anyway"
                 /\ conflictChoice'.selection = "undefined"
                       => /\ conflictChoice'.action = "edit-rule"
                          /\ pc' = "approval-dialog"
                          /\ wsFile' = wsFile
                          /\ ~result'.done ]_vars

\* C8 witness: a conflict was reported, the conflict dialog was dismissed, the
\* approval dialog is open again and no rule has been written.
C8_Witness ==
    /\ pc = "approval-dialog"
    /\ conflictChoice = [selection |-> "undefined", action |-> "edit-rule"]
    /\ wsFile \in WorkspaceFiles

\* C9: the approval loop completes no iteration without a new human action:
\* a re-resolution is always that of a rule the user authored in the dialog
\* of the same iteration, and after it the loop either ends or opens the
\* dialog again with no answer yet.
C9_EachIterationNeedsUser ==
    [][ /\ (pc = "reclassify" /\ pc' # "done")
              => pc' = "approval-dialog" /\ approvalDecision' = NoApprovalDecision
        /\ pc' = "reclassify" => approvalDecision'.action = "custom-rule"
        /\ pc' = "consistency-check"
              => pc = "approval-dialog" /\ approvalDecision = NoApprovalDecision
        /\ (approvalDecision' # approvalDecision /\ approvalDecision' # NoApprovalDecision)
              => pc = "approval-dialog" ]_vars

\* C9 witness: the user authored two rules that both resolved to ask, and the
\* dialog is open for the third time.
C9_Witness ==
    /\ pc = "approval-dialog"
    /\ approvalDecision = NoApprovalDecision
    /\ currentDecision.decision = "ask"
    /\ \E t \in ToolKeys :
           /\ Len(wsFile.preflight.llmRules[t]) >= 2
           /\ \A text \in RuleTexts : includes(wsFile.preflight.llmRules[t], text)

\* C10: from every waiting state of the flow (approval dialog, consistency
\* check, conflict dialog, re-classification, preflight-failure prompt) a
\* step of the user can end the wait; the handler takes no abort signal, so
\* the user's steps are the only exits that are not the classifier's.
C10_EveryWaitHasUserExit ==
    pc \in { "approval-dialog", "consistency-check", "conflict-dialog", "reclassify",
             "failure-prompt" }
        => ENABLED ( \/ \E selection \in FailureSelections : FailureSelect(selection)
                     \/ \E action \in ApprovalActions : ApprovalChoice(action)
                     \/ \E rule \in RuleTexts : CustomRule(rule)
                     \/ \E selection \in ConflictSelections : ConflictSelect(selection) )

\* C11: when the re-resolution that follows the save of a custom rule answers
\* ask, the approval dialog opens again for the same call with the decision
\* of that re-resolution, and the call has no outcome until an answer of the
\* dialog gives it one.
C11_AskReopensDialog ==
    [][ /\ (pc = "reclassify" /\ applied'.status # "error"
               /\ currentDecision'.decision = "ask")
              => /\ pc' = "approval-dialog"
                 /\ toolCall' = toolCall
                 /\ ~result'.done
                 /\ approvals' = NoApproval
                 /\ \E metadata \in Metadatas, policyAttempt \in PolicyAttempts :
                        currentDecision' =
                            resolveToolDecision(toolCall, metadata, hasUI, approvalMode,
                                                scopedPermissions, policyAttempt)
        /\ (pc = "approval-dialog" /\ result'.done)
              => approvalDecision'.action \in ApprovalActions ]_vars

\* C11 witness: the dialog is open again with a decision that differs from
\* the initial one, and the call has no outcome.
C11_Witness ==
    /\ pc = "approval-dialog"
    /\ currentDecision.decision = "ask"
    /\ currentDecision # decisions
    /\ \E t \in ToolKeys : wsFile.preflight.llmRules[t] # << >>
    /\ ~result.done
    /\ approvals = NoApproval

\* no allow, ask or deny rule of the loaded permissions matches the call
noDeterministicMatch(call, perms) ==
    /\ ~matchesBucket(call, perms.rules.deny)
    /\ ~matchesBucket(call, perms.rules.ask)
    /\ ~matchesBucket(call, perms.rules.allow)

\* some policy override of the loaded permissions matches the call
matchesAnOverride(call, overrides) ==
    \E i \in 1..Len(overrides) : matchesPolicyOverride(overrides[i], call)

\* the verdicts the policy can give
PolicyVerdicts == { a \in PolicyAttempts : a.status = "ok" }

\* C12: when no deterministic rule and no policy override matches the call,
\* the decision is the verdict of the policy, with source policy, exactly when
\* a policy rule applies to the tool of the call; without such a rule the
\* verdict has no effect and the decision is the fallback of the approval
\* mode.  (A deny verdict shown as ask because a UI is there is left aside:
\* it is the subject of C13.)
C12_PolicyVerdictDecides ==
    (/\ pc = "resolved"
     /\ noDeterministicMatch(toolCall, permissions)
     /\ ~findMatchingPolicyOverride(toolCall, permissions.policyOverrides).valid)
        => \A policyAttempt \in PolicyVerdicts :
               (/\ decisions = resolveToolDecision(toolCall, currentMetadata, hasUI,
                                                   approvalMode, permissions, policyAttempt)
                /\ ~(policyAttempt.decision = "deny" /\ hasUI))
                   => IF findMatchingPolicyRule(toolCall, permissions.policyRules) # NoPolicyRule
                      THEN /\ decisions.decision = policyAttempt.decision
                           /\ decisionSource(decisions) = "policy"
                      ELSE /\ decisions.decision =
                                  buildDefaultDecision(currentMetadata, approvalMode)
                           /\ decisionSource(decisions) = "fallback"

\* C13: when the verdict of the policy is deny, a UI is available and the
\* approval mode is all, the decision is ask, its source is the policy and
\* the deny verdict is attached to it.
C13_PolicyDenyAsksWithUI ==
    (/\ pc = "resolved"
     /\ hasUI
     /\ approvalMode = "all"
     /\ ~matchesBucket(toolCall, permissions.rules.deny)
     /\ ~findMatchingPolicyOverride(toolCall, permissions.policyOverrides).valid
     /\ findMatchingPolicyRule(toolCall, permissions.policyRules) # NoPolicyRule)
        => \A policyAttempt \in PolicyVerdicts :
               (/\ policyAttempt.decision = "deny"
                /\ decisions = resolveToolDecision(toolCall, currentMetadata, hasUI,
                                                   approvalMode, permissions, policyAttempt))
                   => /\ decisions.decision = "ask"
                      /\ decisionSource(decisions) = "policy"
                      /\ decisions.policy.decision = "deny"
                      /\ decisions.policy.reason = policyAttempt.reason

\* C13 witness: no deterministic rule matches, the policy answered deny, the
\* user will be asked.
C13_Witness ==
    /\ pc = "resolved"
    /\ hasUI
    /\ approvalMode = "all"
    /\ noDeterministicMatch(toolCall, permissions)
    /\ decisions.policy.decision = "deny"
    /\ decisions.decision = "ask"

\* C14: when no deterministic rule matches the call and a policy override
\* matches it, the verdict of the policy is ignored: the decision is the
\* fallback of the approval mode and carries no policy decision.
C14_OverrideSkipsPolicy ==
    (/\ pc = "resolved"
     /\ noDeterministicMatch(toolCall, permissions)
     /\ matchesAnOverride(toolCall, permissions.policyOverrides))
        => /\ decisions.decision = buildDefaultDecision(currentMetadata, approvalMode)
           /\ decisions.policy = NoPolicy
           /\ decisionSource(decisions) = "fallback"

\* C14 witness: the override matches a call whose tool has a policy rule.
C14_Witness ==
    /\ pc = "resolved"
    /\ noDeterministicMatch(toolCall, permissions)
    /\ matchesAnOverride(toolCall, permissions.policyOverrides)
    /\ findMatchingPolicyRule(toolCall, permissions.policyRules) # NoPolicyRule
    /\ decisions.policy = NoPolicy
    /\ decisions.decision = "ask"

\* C15: when no deterministic rule matches the call and no policy decision
\* applies to it, the decision depends on the approval mode alone: off gives
\* allow, all gives ask, destructive gives ask exactly when the classifier
\* marked the call destructive (missing metadata counts as destructive) and
\* allow otherwise.
C15_FallbackByApprovalMode ==
    (/\ pc = "resolved"
     /\ noDeterministicMatch(toolCall, permissions)
     /\ decisions.policy = NoPolicy)
        => decisions.decision =
               CASE approvalMode = "off" -> "allow"
                 [] approvalMode = "all" -> "ask"
                 [] approvalMode = "destructive" ->
                        IF ~currentMetadata.present \/ currentMetadata.destructive
                        THEN "ask" ELSE "allow"

\* C16: in approval mode off the user is never asked: the approval dialog is
\* never open, and a call that is over was allowed or, when a deny rule or a
\* deny of the policy applied to it, denied.
C16_OffNeverAsks ==
    approvalMode = "off"
        => /\ pc # "approval-dialog"
           /\ (pc = "done" /\ result.block /\ decisions # NoDecision)
                 => \/ decisions.rule.kind = "deny"
                    \/ decisions.policy.decision = "deny"

hasPolicyRule(perms, call, policy) ==
    \E i \in 1..Len(perms.policyRules) :
        /\ perms.policyRules[i].policy = policy
        /\ perms.policyRules[i].tool = normalizeToolName(call.name)
        /\ perms.policyRules[i].source = "workspace"

\* the rules of a loaded PermissionsState that come from the workspace file,
\* the only file the session writes
fromWorkspace(perms) ==
    LET ws(rule) == rule.source = "workspace"
    IN  [ rules |-> [ allow |-> SelectSeq(perms.rules.allow, ws),
                      ask   |-> SelectSeq(perms.rules.ask, ws),
                      deny  |-> SelectSeq(perms.rules.deny, ws) ],
          policyRules |-> SelectSeq(perms.policyRules, ws),
          policyOverrides |-> SelectSeq(perms.policyOverrides, ws) ]

\* C18: every resolution and every dialog works on rules loaded from the
\* settings files after all the writes the session made before it: the
\* permissions of a dialog are those of the workspace file as it is, the
\* permissions of the re-classification are loaded after the save of the
\* custom rule and hold that rule, the re-resolution uses them, and the dialog
\* that follows it holds the rule too.
C18_ReadYourWrites ==
    [][ /\ pc' \in { "approval-dialog", "consistency-check", "conflict-dialog" }
              => fromWorkspace(loopPermissions') =
                     fromWorkspace(loadPermissionsState(wsFile', glFile'))
        /\ pc' = "reclassify"
              => /\ scopedPermissions' = loadPermissionsState(wsFile', glFile')
                 /\ hasPolicyRule(scopedPermissions', toolCall', approvalDecision'.rule)
        /\ (pc = "reclassify" /\ applied'.status # "error")
              => \E metadata \in Metadatas, policyAttempt \in PolicyAttempts :
                     currentDecision' =
                         resolveToolDecision(toolCall, metadata, hasUI, approvalMode,
                                             loadPermissionsState(wsFile, glFile),
                                             policyAttempt)
        /\ (pc = "reclassify" /\ pc' = "approval-dialog")
              => hasPolicyRule(loopPermissions', toolCall, approvalDecision.rule) ]_vars

\* C18 witness: a custom rule was saved, the call was resolved again and the
\* dialog is open on permissions that hold the rule.
C18_Witness ==
    /\ pc = "approval-dialog"
    /\ \E rule \in RuleTexts :
           /\ wsFile.preflight.llmRules[normalizeToolName(toolCall.name)] = << rule >>
           /\ hasPolicyRule(loopPermissions, toolCall, rule)
    /\ currentDecision.policy # NoPolicy
    /\ decisions.policy = NoPolicy

\* the result of a consistency check that could not be made
unavailable(check) ==
    Len(check.reason) = 2 /\ check.reason[1] = "Consistency check unavailable: "

C20_EditRuleKeepsText ==
    [][ (pc = "conflict-dialog" /\ conflictChoice'.action = "edit-rule")
           => /\ wsFile' = wsFile
              /\ glFile' = glFile
              /\ pc' = "approval-dialog"
              /\ ~result'.done
              /\ customRuleInput' = approvalDecision.rule ]_vars

\* C21: the retry choice of the failure prompt always means retry, and a
\* retry starts the classification again, once, with the call still without an
\* outcome; when there is a UI every failed classification brings the prompt
\* back, however many attempts were made before; the retry loop is left only
\* when the classification succeeds or the prompt is answered with allow or
\* block.
C21_RetryLoop ==
    [][ /\ pc = "failure-prompt"
              => handlePreflightFailure(preflightResult.reason, hasUI,
                                        "Retry preflight").action = "retry"
        /\ (pc = "failure-prompt" /\ failureDecision'.action = "retry")
              => /\ pc' = "preflight"
                 /\ ~result'.done
                 /\ toolCall' = toolCall
        /\ (pc = "preflight" /\ preflightResult'.status = "error" /\ hasUI)
              => /\ pc' = "failure-prompt"
                 /\ ~result'.done
        /\ (pc \in { "preflight", "failure-prompt" }
               /\ pc' \notin { "preflight", "failure-prompt" })
              => \/ pc = "preflight" /\ preflightResult'.status = "ok"
                 \/ failureDecision'.action \in { "allow", "block" } ]_vars

\* C21 witness: the prompt is back after a retry whose classification failed
\* again.
C21_Witness ==
    /\ pc = "failure-prompt"
    /\ failureDecision.action = "retry"
    /\ preflightResult.status = "error"
    /\ ~result.done

(***************************************************************************)
(* Claims about the approval dialog (SpecDialog).                          *)
(***************************************************************************)
\* the step in which the request of the in-flight fetch resolves
arrives(fetch) == fetch \in dialog.pending /\ fetch \notin dialog'.pending

\* C22: a rule-suggestion or explanation fetch whose abort handle has been
\* cancelled changes nothing of the dialog when its result arrives: every
\* local of the closure and the input text stay as they were, the fetch is
\* only recorded as ended
C22_CancelledFetchIsDropped ==
    [][ \A fetch \in dialog.pending :
            (dialog.signals[fetch.id] /\ arrives(fetch))
                => /\ dialog' = [dialog EXCEPT !.pending = @ \ { fetch },
                                               !.dropped = @ \cup { fetch.id }]
                   /\ customRuleInput' = customRuleInput
                   /\ approvalDecision' = approvalDecision ]_vars

\* the result of a cancelled fetch has arrived
C22_Witness ==
    /\ pc \in {"approval-dialog", "dialog-closed"}
    /\ \E id \in 1..Len(dialog.signals) :
           /\ dialog.signals[id]
           /\ id \in dialog.dropped
           /\ \A fetch \in dialog.pending : fetch.id # id

\* the 'newer fetch' half of C23 on its own: an in-flight fetch that is no
\* longer the one its kind's controller belongs to has been cancelled
supersededFetchesCancelled ==
    \A fetch \in dialog.pending :
        fetch.id \notin {dialog.ruleController, dialog.explainController}
            => dialog.signals[fetch.id]

\* C23: whenever the approval dialog has closed, or a newer fetch of the same
\* kind has been started, the fetch still in flight has its abort handle
\* cancelled
C23_CloseOrNewerFetchCancels ==
    \A fetch \in dialog.pending :
        (~dialog.open \/ fetch.id \notin {dialog.ruleController, dialog.explainController})
            => dialog.signals[fetch.id]

\* the input holds text the user typed, not a suggestion they accepted
holdsTypedText ==
    hasCustomRuleInput(customRuleInput) /\ ~dialog.customRuleUsesSuggestion

\* C25: whenever the custom-rule input holds non-empty typed text, the rule
\* submitted is that typed text (trimmed) and never a suggestion, and a
\* suggestion batch that arrives after the typing leaves the typed text as
\* it is
C25_TypedTextWins ==
    [][ /\ (dialog.open /\ holdsTypedText /\ ~dialog'.open
              /\ approvalDecision'.action = "custom-rule")
               => approvalDecision'.rule = trimText(customRuleInput)
        /\ (holdsTypedText /\ \E fetch \in dialog.pending : arrives(fetch))
               => /\ customRuleInput' = customRuleInput
                  /\ ~dialog'.customRuleUsesSuggestion ]_vars

\* typed text was submitted after a batch of suggestions had arrived
C25_Witness ==
    /\ ~dialog.open
    /\ approvalDecision = [action |-> "custom-rule", rule |-> "Deny rm"]
    /\ customRuleInput \in {"Deny rm", "Deny rm "}
    /\ Len(dialog.ruleSuggestions) > 0
    /\ dialog.pending = {}

\* the custom-rule row is highlighted, the input is empty and there is no
\* suggestion to show
emptyAndNoSuggestion ==
    /\ dialog.open
    /\ dialog.selectedIndex = customRuleIndex
    /\ customRuleInput = ""
    /\ getCurrentRuleSuggestion(dialog) = "undefined"

\* C26: submitting the custom-rule row with empty input and no suggestion
\* available is a no-op: the dialog stays open and its state is the same as
\* before
C26_EmptySubmitIsNoOp ==
    [][ (emptyAndNoSuggestion /\ Confirm)
            => /\ dialog'.open
               /\ dialog' = dialog
               /\ customRuleInput' = customRuleInput
               /\ approvalDecision' = approvalDecision ]_vars

\* the half of C26 the code keeps: the dialog stays open and nothing is
\* submitted
emptySubmitKeepsDialogOpen ==
    [][ (emptyAndNoSuggestion /\ Confirm)
            => /\ dialog'.open
               /\ customRuleInput' = customRuleInput
               /\ approvalDecision' = approvalDecision ]_vars

\* the texts of a list of suggestions, and the same ignoring case
texts(suggestions) == { suggestions[i] : i \in 1..Len(suggestions) }
lowered(suggestions) == { toLowerCase(suggestions[i]) : i \in 1..Len(suggestions) }

\* the tab key is pressed with the last suggestion of the batch in the input
cyclesPastLast ==
    /\ dialog.open
    /\ dialog.selectedIndex = customRuleIndex
    /\ resolveRuleSuggestionEnabled(dialog, customRuleInput)
    /\ hasCustomRuleInput(customRuleInput)
    /\ dialog.customRuleUsesSuggestion
    /\ dialog.ruleSuggestionIndex >= Len(dialog.ruleSuggestions) - 1

C24_OneDialogAtATime ==
    /\ Cardinality(batch.open) <= 1
    /\ \A i \in batch.open :
           \A j \in 1..(i - 1) :
               askPending(batch.calls, hasUI, j) => batch.approvals[j] # "none"

\* the dialog of a later call is open after an earlier call was asked about
C24_Witness ==
    /\ pc = "batch-dialog"
    /\ \E i \in batch.open :
           \E j \in 1..(i - 1) :
               /\ askPending(batch.calls, hasUI, j)
               /\ batch.approvals[j] \in {"allow", "deny"}

\* the outcome of call i when the handler returns: the approval if there is
\* one, else block for a deny decision and run for the rest
outcomeOf(b, i) ==
    IF b.approvals[i] # "none" THEN b.approvals[i]
    ELSE IF b.calls[i] = "deny" THEN "deny" ELSE "allow"

decisionNow ==
    resolveBaseDecision(askedCall, NoMetadata, approvalMode,
                        loadPermissionsState(wsFile, glFile)).decision

\* C37: in one batch, the decision applied to a later call reflects every
\* rule persisted while an earlier call of the same batch was being approved:
\* a later call that a just-written rule now allows or denies is decided by
\* that rule rather than by the decision computed before the write (so the
\* approval dialog opens for a call only if the files still say ask).
C37_LaterCallSeesNewRules ==
    [][ (pc = "batch-loop" /\ pc' = "batch-dialog") => decisionNow = "ask" ]_vars

\* what does hold: the second loop goes by the decisions computed before it
\* started; every call whose decision was ask gets its dialog
laterCallIsAskedAnyway ==
    [][ (pc = "batch-loop" /\ pc' = "batch-dialog") => batch.calls[batch.index] = "ask" ]_vars

(***************************************************************************)
(* Claims about saves on the workspace file (SpecStore).                   *)
(***************************************************************************)
\* the list of the document that the save recorded in `op` goes to, as the
\* persist function reads it
targetList(existing, op, kind, call) ==
    IF op = "rule" THEN permissionList(existing, kind)
    ELSE IF op = "override"
    THEN extractPermissionList(existing.preflight.policyOverrides)
    ELSE LET policies == normalizeLlmRules(existing.preflight,
                                           normalizeToolName(call.name))
                             [normalizeToolName(call.name)]
         IN  [ i \in 1..Len(policies) |-> << policies[i] >> ]

copies(list, rule) == Cardinality({ i \in 1..Len(list) : list[i] = rule })

alreadyExists(op) ==
    IF op = "rule" THEN "Rule already exists: "
    ELSE IF op = "override" THEN "Policy override already exists: "
    ELSE "Policy rule already exists: "

\* the save of this step is of a rule that its list already holds
savesPresentRule ==
    /\ store'.op # "none"
    /\ store'.kind # "ask"
    /\ store'.rule \notin { Undef, << "" >> }
    /\ includes(targetList(wsFile, store'.op, store'.kind, toolCall'), store'.rule)

\* C28: persisting a rule already present in its list is a no-op: the
\* workspace file is unchanged and holds exactly one copy of the rule, and
\* the user is shown the notice that the rule already exists
C28_DuplicateSaveIsNoOp ==
    [][ savesPresentRule
            => /\ wsFile' = wsFile
               /\ copies(targetList(wsFile', store'.op, store'.kind, toolCall'),
                         store'.rule) = 1
               /\ store'.notices = << [text |-> alreadyExists(store'.op),
                                       about |-> store'.rule] >>
               /\ ~store'.saved /\ ~store'.thrown ]_vars

\* a rule was saved and then saved again
C28_Witness ==
    /\ store.op = "rule"
    /\ store.written
    /\ ~store.saved
    /\ store.notices = << [text |-> "Rule already exists: ", about |-> store.rule] >>
    /\ copies(permissionList(wsFile, "allow"), store.rule) = 1

\* C29: after the first save of any kind on a workspace file whose llmRules
\* are in a legacy shape, the stored llmRules are in the canonical
\* tool-scoped map form
C29_FirstSaveMigrates ==
    store.written => wsFile.preflight.llmRulesArray = << >>

\* the part of C29 the code keeps: a save of a policy rule or of a policy
\* override leaves the canonical form on disk
policySavesMigrate ==
    [][ (store'.op \in {"policy", "override"} /\ store'.saved)
            => wsFile'.preflight.llmRulesArray = << >> ]_vars

\* C30: if writing the workspace file fails with an I/O error, the user gets
\* a notification, the rule counts as unsaved and the file is as it was, and
\* control returns to the approval loop
C30_WriteFailureIsNotified ==
    store.failed
        => /\ store.notices # << >>
           /\ ~store.saved
           /\ ~store.thrown

\* the part of C30 the code keeps: a failed write leaves the file as it was
\* and the rule unsaved
failedWriteKeepsFile ==
    [][ store'.failed => (wsFile' = wsFile /\ ~store'.saved) ]_vars

(***************************************************************************)
(* Claims about how a call that needs approval ends (Spec).                *)
(***************************************************************************)
\* the handler has returned for a call that the resolver answered with ask
askCallEnded == pc = "done" /\ result.done /\ decisions.decision = "ask"

\* the user chose allow once or allow-and-persist in the approval dialog
userAllowed == hasUI /\ approvalDecision.action \in { "allow", "allow-persist" }

\* the user wrote a rule, it is saved, and the call resolved to allow with it
savedRuleAllowed ==
    /\ hasUI
    /\ approvalDecision.action = "custom-rule"
    /\ includes(wsFile.preflight.llmRules[normalizeToolName(toolCall.name)],
                trimText(approvalDecision.rule))
    /\ applied.status = "ok"
    /\ currentDecision.decision = "allow"

askCallDeniedWithoutUI == askCallEnded /\ ~hasUI /\ result.block

askCallDeniedByCancel == askCallEnded /\ conflictChoice.action = "cancel" /\ result.block

askCallDeniedByError == askCallEnded /\ applied.status = "error" /\ result.block

\* the user answered the approval dialog with allow-and-persist
persistedAllow == pc = "done" /\ approvalDecision.action = "allow-persist"

\* what the handler loads and resolves for a later call equal to this one
laterPermissions == loadPermissionsState(wsFile, glFile)

laterDecision(metadata, policyAttempt) ==
    resolveToolDecision(toolCall, metadata, hasUI, approvalMode, laterPermissions,
                        policyAttempt)

laterCallIsAllowed ==
    \A metadata \in Metadatas, policyAttempt \in PolicyAttempts :
        laterDecision(metadata, policyAttempt).decision = "allow"

nothingStricterApplies ==
    /\ matchesPermissionRule(
           compilePermissionRule(buildRuleForToolCall(toolCall), "allow", "workspace"),
           toolCall)
    /\ ~matchesBucket(toolCall, laterPermissions.rules.deny)
    /\ ~matchesBucket(toolCall, laterPermissions.rules.ask)
    /\ findMatchingPolicyRule(toolCall, laterPermissions.policyRules) = NoPolicyRule

savedRule == compilePermissionRule(store.rule, store.kind, "workspace")

ruleWasBuilt == store.op = "rule" /\ store.rule # Undef

\* C31: for every tool call for which a rule string can be built, compiling
\* that rule and matching it against the same call succeeds.
C31_BuiltRuleMatchesItsCall ==
    ruleWasBuilt => savedRule.valid /\ matchesPermissionRule(savedRule, toolCall)

\* what does hold: the round trip succeeds for a bash command without white
\* space at its ends and without a trailing ":*", and for a custom tool call
roundTripOfPlainCalls ==
    ruleWasBuilt /\ toolCall \in { BashLs, BashLsStar, MyToolA }
        => savedRule.valid /\ matchesPermissionRule(savedRule, toolCall)

\* the bash commands a later call may carry
BashCommands ==
    { getBashCommand(call.args) : call \in { BashLs, BashLsDash, BashLsSpace, BashLsStar } }

bashCall(command) == [BashLs EXCEPT !.args.command = command]

allowRuleWasSaved ==
    /\ ruleWasBuilt /\ store.kind = "allow"
    /\ normalizeToolName(toolCall.name) = << "bash" >>

\* C40: the allow rule persisted by allow-and-persist for a bash call
\* matches no bash command other than the approved command.
C40_AllowRuleMatchesOnlyApprovedCommand ==
    allowRuleWasSaved =>
        \A command \in BashCommands :
            matchesPermissionRule(savedRule, bashCall(command))
                => command = getBashCommand(toolCall.args)

\* what does hold: the rule saved for a command without "*" and without
\* white space at its ends matches that command only
plainCommandRuleIsExact ==
    allowRuleWasSaved /\ toolCall = BashLs =>
        \A command \in BashCommands :
            matchesPermissionRule(savedRule, bashCall(command)) <=> command = << "l", "s" >>

(***************************************************************************)
(* Claims about deny entries with a reason (SpecResolver).                 *)
(***************************************************************************)
\* a deny list of the workspace file holds the entry {rule, reason}
hasDenyObject(file) == includes(file.permissions.deny, DenyLsWithReason)

\* the rule of the object entry, compiled, matches the call
denyObjectMatches == matchesPermissionRule(compilePermissionRule(RuleBashLs, "deny", "workspace"), toolCall)

\* C32: a deny entry written as a {rule, reason} object is loaded as a deny
\* rule, and when it matches a call the decision is deny with the reason
\* "Blocked by rule <pattern>: <reason>".
C32_DenyObjectIsLoadedWithReason ==
    hasDenyObject(wsFile) =>
        /\ \E i \in 1..Len(permissions.rules.deny) : permissions.rules.deny[i].raw = RuleBashLs
        /\ pc = "resolved" /\ denyObjectMatches =>
               /\ decisions.decision = "deny"
               /\ decisions.reason = [text |-> "Blocked by rule", rule |-> RuleBashLs,
                                      detail |-> "Destructive command"]

\* what does hold: the loader skips the object entry, the file decides as if
\* the entry were not there
denyObjectIsSkipped ==
    \A source \in Sources :
        buildPermissionRules(
            [EmptySettings EXCEPT !.permissions.deny = << DenyLsWithReason >>], source)
          = buildPermissionRules(EmptySettings, source)

(***************************************************************************)
(* The tool_result handler and the session events (index.ts).  The         *)
(* tool_call handler is taken by what it returns for a call; the host      *)
(* emits tool_result for a call after its tool_call handler has returned,  *)
(* and starts or switches a session only between tool calls.               *)
(***************************************************************************)
\* what the tool_call handler returns: undefined, or a block with its reason
HandlerResults ==
    { Allowed, Blocked(Text("Blocked by user")),
      Blocked(Text("Approval required but no UI available.")) }

\* the result the host has for a call before the tool_result handlers run
hostContent == Text("tool output")

resultsVars ==
    << wsFile, glFile, hasUI, approvalMode, pc, toolCall, permissions, loopPermissions,
       scopedPermissions, preflightResult, decisions, currentDecision, currentMetadata,
       approvalDecision, customRuleInput, dialog, consistency, conflictChoice, applied,
       approvals, result, failureDecision, edits, handled, batch, store >>

InitResults ==
    /\ wsFile = EmptySettings
    /\ glFile = EmptySettings
    /\ hasUI \in BOOLEAN
    /\ approvalMode = "all"
    /\ pc = "session"
    /\ toolCall = NoCall
    /\ permissions = NoPermissions
    /\ loopPermissions = NoPermissions
    /\ scopedPermissions = NoPermissions
    /\ preflightResult = NoPreflight
    /\ decisions = NoDecision
    /\ currentDecision = NoDecision
    /\ currentMetadata = NoMetadata
    /\ approvalDecision = NoApprovalDecision
    /\ consistency = NoConsistency
    /\ conflictChoice = NoConflictChoice
    /\ applied = NoApplied
    /\ approvals = NoApproval
    /\ result = NoResult
    /\ failureDecision = NoFailureDecision
    /\ edits = 0
    /\ handled = 0
    /\ customRuleInput = ""
    /\ dialog = NoDialog
    /\ batch = NoBatch
    /\ store = NoStore
    /\ blockedToolCalls = NoBlockedToolCalls
    /\ toolResults = NoToolResults

\* the tool_call handler returns res for the call id; the host then has the
\* result of the tool, or its own result for a blocked call
HandlerReturns(id, res, isError) ==
    /\ pc = "session"
    /\ toolResults[id].status = "none"
    /\ blockedToolCalls' = recordIfBlocked(blockedToolCalls, id, res)
    /\ toolResults' = [toolResults EXCEPT ![id] =
                           [status |-> "pending", blocked |-> res.block,
                            reason |-> res.reason, rewritten |-> FALSE,
                            content |-> hostContent, isError |-> isError]]
    /\ UNCHANGED resultsVars

\* a tool_result handler that never finds a recorded block
onToolResultNoRewrite(blocked, toolCallId, current) ==
    [blocked |-> blocked, result |-> [current EXCEPT !.status = "done"]]

\* pi.on("tool_result"): the map after the handler and the result handed back
onToolResult(blocked, toolCallId, current) ==
    LET reason == blocked[toolCallId]
    IN  IF reason = NoReason \/ reason.text = ""
        THEN [blocked |-> blocked, result |-> [current EXCEPT !.status = "done"]]
        ELSE [blocked |-> [blocked EXCEPT ![toolCallId] = NoReason],
              result |-> [current EXCEPT !.status = "done", !.rewritten = TRUE,
                                         !.content = reason, !.isError = FALSE]]

ToolResult(id) ==
    /\ pc = "session"
    /\ toolResults[id].status = "pending"
    /\ LET after == onToolResult(blockedToolCalls, id, toolResults[id])
       IN  /\ blockedToolCalls' = after.blocked
           /\ toolResults' = [toolResults EXCEPT ![id] = after.result]
    /\ UNCHANGED resultsVars

\* session_start, session_switch: refreshConfigs; the ids of the next
\* session are new ones
SessionStart ==
    /\ pc = "session"
    /\ \A id \in ToolCallIds : toolResults[id].status # "pending"
    /\ blockedToolCalls' = NoBlockedToolCalls
    /\ toolResults' = NoToolResults
    /\ UNCHANGED resultsVars

NextResults ==
    \/ \E id \in ToolCallIds, res \in HandlerResults, isError \in BOOLEAN :
           HandlerReturns(id, res, isError)
    \/ \E id \in ToolCallIds : ToolResult(id)
    \/ SessionStart

SpecResults == InitResults /\ [][NextResults]_vars

blockIsConsumed ==
    \A id \in ToolCallIds :
        blockedToolCalls[id] # NoReason =>
            toolResults[id].status = "pending" /\ toolResults[id].blocked

(***************************************************************************)
(* Claims about what a save leaves alone (SpecStore).                      *)
(***************************************************************************)
\* the policy texts a document loads for a tool
loadedPolicies(file, tool) ==
    LET policies == getPolicyRulesForTool(tool, extractPolicyEntries(file.preflight))
    IN  { policies[i] : i \in 1..Len(policies) }

\* the (tool, text) entries a document loads
loadedEntries(file) ==
    LET entries == extractPolicyEntries(file.preflight)
    IN  { entries[i] : i \in 1..Len(entries) }

\* C38: a save operation changes only the list it inserts into: every other
\* entry of the workspace file, including deny entries written as
\* {rule, reason} objects, policy overrides and policy rules in any shape, is
\* the same after the write as before it.
C38_SaveChangesOnlyItsList ==
    [][ wsFile' # wsFile =>
          /\ store'.op = "rule" =>
                 /\ store'.kind # "allow" => wsFile'.permissions.allow = wsFile.permissions.allow
                 /\ store'.kind # "ask" => wsFile'.permissions.ask = wsFile.permissions.ask
                 /\ store'.kind # "deny" => wsFile'.permissions.deny = wsFile.permissions.deny
                 /\ wsFile'.preflight = wsFile.preflight
          /\ store'.op = "override" =>
                 /\ wsFile'.permissions = wsFile.permissions
                 /\ loadedEntries(wsFile) \subseteq loadedEntries(wsFile')
          /\ store'.op = "policy" =>
                 /\ wsFile'.permissions = wsFile.permissions
                 /\ wsFile'.preflight.policyOverrides = wsFile.preflight.policyOverrides ]_vars

\* what does hold: a save of a permission rule leaves preflight alone and
\* rewrites the other two lists as the loader reads them (strings, trimmed);
\* a save under preflight leaves permissions alone
saveNormalizesOtherLists ==
    [][ wsFile' # wsFile =>
          IF store'.op = "rule"
          THEN /\ wsFile'.preflight = wsFile.preflight
               /\ store'.kind # "ask" =>
                      wsFile'.permissions.ask = extractPermissionList(wsFile.permissions.ask)
               /\ store'.kind # "deny" =>
                      wsFile'.permissions.deny = extractPermissionList(wsFile.permissions.deny)
          ELSE /\ wsFile'.permissions = wsFile.permissions
               /\ wsFile'.preflight.policyOverrides \in
                      { extractPermissionList(wsFile.preflight.policyOverrides),
                        << store'.rule >> \o
                            extractPermissionList(wsFile.preflight.policyOverrides) } ]_vars

\* the write turns a legacy llmRules array into the tool-scoped map
migrates == wsFile' # wsFile /\ wsFile.preflight.llmRulesArray # << >>
                /\ wsFile'.preflight.llmRulesArray = << >>

\* C39: migrating legacy llmRules on write loses nothing: every policy text
\* that was loadable before the write is still present after it and applies
\* to the same set of tools as it did when loaded in its legacy form (a
\* legacy plain string applies to every tool, as wildcard).
C39_MigrationLosesNothing ==
    [][ migrates =>
          \A tool \in ToolKeys :
              \A policy \in loadedPolicies(wsFile, tool) :
                  policy \in loadedPolicies(wsFile', tool) ]_vars

\* what does hold: an item with a pattern keeps its text for the tool of the
\* pattern; a plain string is kept for the tool of the call when a policy rule
\* is saved
migrationKeepsPatternItems ==
    [][ migrates =>
          /\ \A entry \in loadedEntries(wsFile) :
                 entry.tool # Wildcard => entry \in loadedEntries(wsFile')
          /\ store'.op = "policy" =>
                 \A policy \in loadedPolicies(wsFile, normalizeToolName(toolCall'.name)) :
                     policy \in loadedPolicies(wsFile', normalizeToolName(toolCall'.name)) ]_vars
====
